---- MODULE Spec2Model ----
(***************************************************************************)
(* Model of the repository trust engine of src/src/core/validate.cpp:      *)
(* root metadata of the two dialects (v0.6 and v1), the signature          *)
(* threshold check, and the root update chain.                             *)
(*                                                                         *)
(* Conventions.  A C++ function that may throw is an operator returning a  *)
(* record with a field err: "ok" when it returns, otherwise the name of   *)
(* the exception it throws.  A JSON object is a function whose DOMAIN is   *)
(* the set of members present.                                             *)
(***************************************************************************)
EXTENDS Integers, Sequences, FiniteSets, TLC

VARIABLES
    p_root,      \* the root currently trusted (RepoTrust::p_root), NoRoot before any load
    call,        \* the last operation: its name, its outcome, and facts about its input
    recovered,   \* the last update was accepted right after a rejected one on the same root
    cs           \* one evaluation of check_signatures: inputs, result, previous result

vars == <<p_root, call, recovered, cs>>

(***************************************************************************)
(* Bounds of the model.                                                    *)
(***************************************************************************)
MaxVersion == 2      \* root versions 0..MaxVersion, and SIZE_MAX, are tried
MaxThreshold == 2    \* keyring thresholds 1..MaxThreshold are tried

(***************************************************************************)
(* std::size_t, 64 bits wide, as four 16-bit limbs, most significant       *)
(* first, so that version() + 1 wraps exactly as in the code.              *)
(***************************************************************************)
LimbMax == 2^16 - 1

SIZE_MAX == <<LimbMax, LimbMax, LimbMax, LimbMax>>

SizeOf(n) == <<0, 0, 0, n>>

RECURSIVE size_carry(_, _)
size_carry(v, i) ==
    IF i = 0 THEN v
    ELSE IF v[i] = LimbMax THEN size_carry([v EXCEPT ![i] = 0], i - 1)
    ELSE [v EXCEPT ![i] = v[i] + 1]

\* v + 1 on std::size_t: the carry out of the top limb is dropped.
size_inc(v) == size_carry(v, Len(v))

\* a < b on std::size_t
size_lt(a, b) ==
    \E i \in 1..Len(a) : a[i] < b[i] /\ \A k \in 1..(i - 1) : a[k] = b[k]

(***************************************************************************)
(* Strings that the code inspects are sequences of characters.             *)
(***************************************************************************)
starts_with(s, prefix) ==
    Len(s) >= Len(prefix) /\ SubSeq(s, 1, Len(prefix)) = prefix

(***************************************************************************)
(* Keys and signatures.  PubKeys are well-formed 64-character hex public   *)
(* keys; BadHex is a key value that is not hex.  A signature string is     *)
(* [signer, msg, hex]: the hex encoding of the Ed25519 signature of msg    *)
(* under signer's secret key when hex is TRUE, and a string that does not  *)
(* decode to 64 bytes when hex is FALSE.                                   *)
(***************************************************************************)
PubKeys == {"pkA", "pkB"}

BadHex == "nothex"

\* Key ids in std::string order (operator< of RoleSignature compares keyids).
KeyIdOrder == <<"id0", "pkA", "pkB", "zz9">>

KeyIds == {KeyIdOrder[i] : i \in 1..Len(KeyIdOrder)}

KeyIdRank(k) == CHOOSE i \in 1..Len(KeyIdOrder) : KeyIdOrder[i] = k

keyid_lt(a, b) == KeyIdRank(a) < KeyIdRank(b)

Key_from_ed25519(pk) == [keytype |-> "ed25519", scheme |-> "ed25519", keyval |-> pk]

\* hex2bin of a key value (32 bytes) and of a signature (64 bytes): 0 or -1.
hex2bin_pk(pk) == IF pk \in PubKeys THEN 0 ELSE -1

hex2bin_sig(sig) == IF sig.hex THEN 0 ELSE -1

\* verify(data, bin_pk, bin_signature): 1 exactly for the signature of data
\* made with the secret key of pk.
verify_raw(data, pk, sig) == IF sig.signer = pk /\ sig.msg = data THEN 1 ELSE 0

\* verify(const std::string& data, const std::string& pk, const std::string& signature)
verify(data, pk, sig) ==
    IF hex2bin_sig(sig) # 0 \/ hex2bin_pk(pk) # 0
    THEN [err |-> "runtime_error", ret |-> 0]
    ELSE [err |-> "ok", ret |-> verify_raw(data, pk, sig)]

(***************************************************************************)
(* RootRoleBase::check_signatures.  signatures is a std::set of            *)
(* RoleSignature, iterated in ascending keyid order.                       *)
(***************************************************************************)
RECURSIVE SortedByKeyid(_)
SortedByKeyid(S) ==
    IF S = {} THEN <<>>
    ELSE LET s == CHOOSE m \in S : \A o \in S : ~keyid_lt(o.keyid, m.keyid)
         IN  <<s>> \o SortedByKeyid(S \ {s})

\* A variant of the loop in which a signature under a keyid the keyring does not
\* list is counted instead of skipped.
RECURSIVE check_signatures_loop_CountUnknown(_, _, _, _)
check_signatures_loop_CountUnknown(signed_data, sigs, keyring, valid_sig) ==
    IF sigs = <<>> THEN [err |-> "ok", valid_sig |-> valid_sig]
    ELSE LET s == Head(sigs)
             known == s.keyid \in DOMAIN keyring.keys
             v == IF known
                  THEN verify(signed_data, keyring.keys[s.keyid].keyval, s.sig)
                  ELSE [err |-> "ok", ret |-> 1]
             n == IF v.err = "ok" /\ v.ret = 1 THEN valid_sig + 1 ELSE valid_sig
         IN  IF v.err # "ok" THEN [err |-> v.err, valid_sig |-> valid_sig]
             ELSE IF n >= keyring.threshold THEN [err |-> "ok", valid_sig |-> n]
             ELSE check_signatures_loop_CountUnknown(signed_data, Tail(sigs), keyring, n)

\* A variant of the loop in which a signature or a key value that is not hex is
\* an invalid signature and the loop goes on.
RECURSIVE check_signatures_loop_Lenient(_, _, _, _)
check_signatures_loop_Lenient(signed_data, sigs, keyring, valid_sig) ==
    IF sigs = <<>> THEN [err |-> "ok", valid_sig |-> valid_sig]
    ELSE LET s == Head(sigs)
             known == s.keyid \in DOMAIN keyring.keys
             v == IF known
                  THEN verify(signed_data, keyring.keys[s.keyid].keyval, s.sig)
                  ELSE [err |-> "ok", ret |-> 0]
             n == IF known /\ v.err = "ok" /\ v.ret = 1
                  THEN valid_sig + 1 ELSE valid_sig
         IN  IF n >= keyring.threshold THEN [err |-> "ok", valid_sig |-> n]
             ELSE check_signatures_loop_Lenient(signed_data, Tail(sigs), keyring, n)

RECURSIVE check_signatures_loop(_, _, _, _)
check_signatures_loop(signed_data, sigs, keyring, valid_sig) ==
    IF sigs = <<>> THEN [err |-> "ok", valid_sig |-> valid_sig]
    ELSE LET s == Head(sigs)
             known == s.keyid \in DOMAIN keyring.keys
             v == IF known
                  THEN verify(signed_data, keyring.keys[s.keyid].keyval, s.sig)
                  ELSE [err |-> "ok", ret |-> 0]
             n == IF known /\ v.err = "ok" /\ v.ret = 1
                  THEN valid_sig + 1 ELSE valid_sig
         IN  IF v.err # "ok" THEN [err |-> v.err, valid_sig |-> valid_sig]
             ELSE IF n >= keyring.threshold THEN [err |-> "ok", valid_sig |-> n]
             ELSE check_signatures_loop(signed_data, Tail(sigs), keyring, n)

\* A variant of check_signatures that asks for more than threshold valid signatures.
check_signatures_Strict(signed_data, signatures, keyring) ==
    LET r == check_signatures_loop(signed_data, SortedByKeyid(signatures), keyring, 0)
    IN  IF r.err # "ok" THEN r
        ELSE IF r.valid_sig <= keyring.threshold
             THEN [err |-> "threshold_error", valid_sig |-> r.valid_sig]
             ELSE r

check_signatures(signed_data, signatures, keyring) ==
    LET r == check_signatures_loop(signed_data, SortedByKeyid(signatures), keyring, 0)
    IN  IF r.err # "ok" THEN r
        ELSE IF r.valid_sig < keyring.threshold
             THEN [err |-> "threshold_error", valid_sig |-> r.valid_sig]
             ELSE r

(***************************************************************************)
(* Role objects.  A root object is [kind, m_spec_version, m_version,       *)
(* m_keys, m_roles, m_delegations]; kind is the dynamic type               *)
(* (v1::RootRole or v06::RootRole).                                        *)
(***************************************************************************)
Str_1_0_17 == <<"1", ".", "0", ".", "1", "7">>

Str_0_6_0 == <<"0", ".", "6", ".", "0">>

EmptyMap == [x \in {} |-> x]

NoRoot ==
    [kind |-> "none", m_spec_version |-> <<>>, m_version |-> SizeOf(0),
     m_keys |-> EmptyMap, m_roles |-> EmptyMap, m_delegations |-> EmptyMap]

\* v1::RootRole::RootRole() : RootRoleBase("1.0.17")
v1_RootRole == [NoRoot EXCEPT !.kind = "v1", !.m_spec_version = Str_1_0_17]

\* v06::RootRole::RootRole() : RootRoleBase("0.6.0")
v06_RootRole == [NoRoot EXCEPT !.kind = "v06", !.m_spec_version = Str_0_6_0]

\* RoleBase::type() of a root role
type == "root"

Throw(e, partial) == [err |-> e, role |-> partial]

Range(seq) == {seq[i] : i \in 1..Len(seq)}

\* json::dump() of the signed object: the compact serialisation, one text per value.
dump(signed) == [json_text_of |-> signed]

\* The Role enum as parsed from a role name: any other name is Role::kInvalid.
RecognizedRoles == {"root", "targets", "snapshot", "timestamp", "mirrors"}

(***************************************************************************)
(* Dialect v1.                                                             *)
(***************************************************************************)
v1_is_spec_version_compatible(j) ==
    /\ "signed" \in DOMAIN j
    /\ "spec_version" \in DOMAIN j.signed
    /\ starts_with(j.signed.spec_version, <<"1", ".">>)

v1_mandatory_roles == {"root", "snapshot", "targets", "timestamp"}

\* A variant of v1 from_json that lets a role have a threshold of 0.
v1_from_json_AnyThreshold(j) ==
    IF "signed" \notin DOMAIN j THEN Throw("json_exception", v1_RootRole)
    ELSE LET s == j.signed
             r1 == IF "version" \in DOMAIN s
                   THEN [v1_RootRole EXCEPT !.m_version = s.version] ELSE v1_RootRole
             r2 == IF "spec_version" \in DOMAIN s
                   THEN [r1 EXCEPT !.m_spec_version = s.spec_version] ELSE r1
         IN  IF "version" \notin DOMAIN s THEN Throw("role_metadata_error", v1_RootRole)
             ELSE IF "_type" \notin DOMAIN s THEN Throw("role_metadata_error", r1)
             ELSE IF s["_type"] # type THEN Throw("role_metadata_error", r1)
             ELSE IF "spec_version" \notin DOMAIN s THEN Throw("role_metadata_error", r1)
             ELSE IF ~v1_is_spec_version_compatible(j) THEN Throw("role_metadata_error", r2)
             ELSE IF "keys" \notin DOMAIN s THEN Throw("role_metadata_error", r2)
             ELSE IF "roles" \notin DOMAIN s
                  THEN Throw("role_metadata_error", [r2 EXCEPT !.m_keys = s.keys])
             ELSE LET role == [r2 EXCEPT !.m_keys = s.keys, !.m_roles = s.roles]
                  IN  IF \E r \in DOMAIN role.m_roles : r \notin RecognizedRoles
                      THEN Throw("role_metadata_error", role)
                      ELSE IF ~(v1_mandatory_roles \subseteq DOMAIN role.m_roles)
                      THEN Throw("role_metadata_error", role)
                      ELSE IF \E r \in DOMAIN role.m_roles :
                                \/ role.m_roles[r].keyids = <<>>
                                \/ \E rk \in Range(role.m_roles[r].keyids) :
                                       rk \notin DOMAIN role.m_keys
                      THEN Throw("role_metadata_error", role)
                      ELSE [err |-> "ok", role |-> role]

\* A variant of v1 from_json that does not ask for the mandatory roles.
v1_from_json_NoMandatory(j) ==
    IF "signed" \notin DOMAIN j THEN Throw("json_exception", v1_RootRole)
    ELSE LET s == j.signed
             r1 == IF "version" \in DOMAIN s
                   THEN [v1_RootRole EXCEPT !.m_version = s.version] ELSE v1_RootRole
             r2 == IF "spec_version" \in DOMAIN s
                   THEN [r1 EXCEPT !.m_spec_version = s.spec_version] ELSE r1
         IN  IF "version" \notin DOMAIN s THEN Throw("role_metadata_error", v1_RootRole)
             ELSE IF "_type" \notin DOMAIN s THEN Throw("role_metadata_error", r1)
             ELSE IF s["_type"] # type THEN Throw("role_metadata_error", r1)
             ELSE IF "spec_version" \notin DOMAIN s THEN Throw("role_metadata_error", r1)
             ELSE IF ~v1_is_spec_version_compatible(j) THEN Throw("role_metadata_error", r2)
             ELSE IF "keys" \notin DOMAIN s THEN Throw("role_metadata_error", r2)
             ELSE IF "roles" \notin DOMAIN s
                  THEN Throw("role_metadata_error", [r2 EXCEPT !.m_keys = s.keys])
             ELSE LET role == [r2 EXCEPT !.m_keys = s.keys, !.m_roles = s.roles]
                  IN  IF \E r \in DOMAIN role.m_roles : r \notin RecognizedRoles
                      THEN Throw("role_metadata_error", role)
                      ELSE IF \E r \in DOMAIN role.m_roles :
                                \/ role.m_roles[r].keyids = <<>>
                                \/ role.m_roles[r].threshold = 0
                                \/ \E rk \in Range(role.m_roles[r].keyids) :
                                       rk \notin DOMAIN role.m_keys
                      THEN Throw("role_metadata_error", role)
                      ELSE [err |-> "ok", role |-> role]

\* void from_json(const json& j, RootRole& role), namespace v1
v1_from_json(j) ==
    IF "signed" \notin DOMAIN j THEN Throw("json_exception", v1_RootRole)
    ELSE LET s == j.signed
             r1 == IF "version" \in DOMAIN s
                   THEN [v1_RootRole EXCEPT !.m_version = s.version] ELSE v1_RootRole
             r2 == IF "spec_version" \in DOMAIN s
                   THEN [r1 EXCEPT !.m_spec_version = s.spec_version] ELSE r1
         IN  IF "version" \notin DOMAIN s THEN Throw("role_metadata_error", v1_RootRole)
             ELSE IF "_type" \notin DOMAIN s THEN Throw("role_metadata_error", r1)
             ELSE IF s["_type"] # type THEN Throw("role_metadata_error", r1)
             ELSE IF "spec_version" \notin DOMAIN s THEN Throw("role_metadata_error", r1)
             ELSE IF ~v1_is_spec_version_compatible(j) THEN Throw("role_metadata_error", r2)
             ELSE IF "keys" \notin DOMAIN s THEN Throw("role_metadata_error", r2)
             ELSE IF "roles" \notin DOMAIN s
                  THEN Throw("role_metadata_error", [r2 EXCEPT !.m_keys = s.keys])
             ELSE LET role == [r2 EXCEPT !.m_keys = s.keys, !.m_roles = s.roles]
                  IN  IF \E r \in DOMAIN role.m_roles : r \notin RecognizedRoles
                      THEN Throw("role_metadata_error", role)
                      ELSE IF ~(v1_mandatory_roles \subseteq DOMAIN role.m_roles)
                      THEN Throw("role_metadata_error", role)
                      ELSE IF \E r \in DOMAIN role.m_roles :
                                \/ role.m_roles[r].keyids = <<>>
                                \/ role.m_roles[r].threshold = 0
                                \/ \E rk \in Range(role.m_roles[r].keyids) :
                                       rk \notin DOMAIN role.m_keys
                      THEN Throw("role_metadata_error", role)
                      ELSE [err |-> "ok", role |-> role]

\* A variant of v1::RootRole::signatures that keeps every entry of the array,
\* repeated keyids included.
v1_signatures_KeepAll(j) ==
    IF "signatures" \notin DOMAIN j THEN [err |-> "json_exception", set |-> {}]
    ELSE IF j.signatures.shape # "array" THEN [err |-> "json_exception", set |-> {}]
    ELSE LET sigs == j.signatures.items
         IN  IF \E i \in 1..Len(sigs) : ~({"keyid", "sig"} \subseteq DOMAIN sigs[i])
             THEN [err |-> "json_exception", set |-> {}]
             ELSE [err |-> "ok",
                   set |-> {[keyid |-> sigs[i].keyid, sig |-> sigs[i].sig, pos |-> i] :
                              i \in 1..Len(sigs)}]

\* std::set<RoleSignature> v1::RootRole::signatures(const json& j): an array of
\* {keyid, sig}; the set keeps the first entry of each keyid.
v1_signatures(j) ==
    IF "signatures" \notin DOMAIN j THEN [err |-> "json_exception", set |-> {}]
    ELSE IF j.signatures.shape # "array" THEN [err |-> "json_exception", set |-> {}]
    ELSE LET sigs == j.signatures.items
         IN  IF \E i \in 1..Len(sigs) : ~({"keyid", "sig"} \subseteq DOMAIN sigs[i])
             THEN [err |-> "json_exception", set |-> {}]
             ELSE [err |-> "ok",
                   set |-> {[keyid |-> sigs[i].keyid, sig |-> sigs[i].sig] :
                              i \in {n \in 1..Len(sigs) :
                                       \A k \in 1..(n - 1) : sigs[k].keyid # sigs[n].keyid}}]

\* std::map<std::string, RoleFullKeys> v1::RootRole::keys() const
v1_keys(role) ==
    [r \in DOMAIN role.m_roles |->
        [keys |-> [keyid \in Range(role.m_roles[r].keyids) |-> role.m_keys[keyid]],
         threshold |-> role.m_roles[r].threshold]]

(***************************************************************************)
(* Dialect v0.6.                                                           *)
(***************************************************************************)
v06_is_spec_version_compatible(j) ==
    /\ "signed" \in DOMAIN j
    /\ "metadata_spec_version" \in DOMAIN j.signed
    /\ starts_with(j.signed.metadata_spec_version, <<"0", ".", "6", ".">>)

v06_mandatory_roles == {"root", "key_mgr"}

\* A variant of v0.6 from_json that lets delegations beside root and key_mgr in.
v06_from_json_MoreDelegations(j) ==
    IF "signed" \notin DOMAIN j THEN Throw("json_exception", v06_RootRole)
    ELSE LET s == j.signed
             r1 == IF "version" \in DOMAIN s
                   THEN [v06_RootRole EXCEPT !.m_version = s.version] ELSE v06_RootRole
             r2 == IF "metadata_spec_version" \in DOMAIN s
                   THEN [r1 EXCEPT !.m_spec_version = s.metadata_spec_version] ELSE r1
         IN  IF "version" \notin DOMAIN s THEN Throw("role_metadata_error", v06_RootRole)
             ELSE IF "type" \notin DOMAIN s THEN Throw("role_metadata_error", r1)
             ELSE IF s.type # type THEN Throw("role_metadata_error", r1)
             ELSE IF "metadata_spec_version" \notin DOMAIN s
                  THEN Throw("role_metadata_error", r1)
             ELSE IF ~v06_is_spec_version_compatible(j) THEN Throw("role_metadata_error", r2)
             ELSE IF "delegations" \notin DOMAIN s THEN Throw("role_metadata_error", r2)
             ELSE LET role == [r2 EXCEPT !.m_delegations = s.delegations]
                  IN  IF \E r \in DOMAIN role.m_delegations :
                             \/ role.m_delegations[r].pubkeys = <<>>
                             \/ role.m_delegations[r].threshold = 0
                      THEN Throw("role_metadata_error", role)
                      ELSE IF ~(v06_mandatory_roles \subseteq DOMAIN role.m_delegations)
                      THEN Throw("role_metadata_error", role)
                      ELSE [err |-> "ok", role |-> role]

\* void from_json(const json& j, RootRole& role), namespace v06
v06_from_json(j) ==
    IF "signed" \notin DOMAIN j THEN Throw("json_exception", v06_RootRole)
    ELSE LET s == j.signed
             r1 == IF "version" \in DOMAIN s
                   THEN [v06_RootRole EXCEPT !.m_version = s.version] ELSE v06_RootRole
             r2 == IF "metadata_spec_version" \in DOMAIN s
                   THEN [r1 EXCEPT !.m_spec_version = s.metadata_spec_version] ELSE r1
         IN  IF "version" \notin DOMAIN s THEN Throw("role_metadata_error", v06_RootRole)
             ELSE IF "type" \notin DOMAIN s THEN Throw("role_metadata_error", r1)
             ELSE IF s.type # type THEN Throw("role_metadata_error", r1)
             ELSE IF "metadata_spec_version" \notin DOMAIN s
                  THEN Throw("role_metadata_error", r1)
             ELSE IF ~v06_is_spec_version_compatible(j) THEN Throw("role_metadata_error", r2)
             ELSE IF "delegations" \notin DOMAIN s THEN Throw("role_metadata_error", r2)
             ELSE LET role == [r2 EXCEPT !.m_delegations = s.delegations]
                  IN  IF \E r \in DOMAIN role.m_delegations :
                             \/ role.m_delegations[r].pubkeys = <<>>
                             \/ role.m_delegations[r].threshold = 0
                      THEN Throw("role_metadata_error", role)
                      ELSE IF v06_mandatory_roles # DOMAIN role.m_delegations
                      THEN Throw("role_metadata_error", role)
                      ELSE [err |-> "ok", role |-> role]

\* std::set<RoleSignature> v06::RootRole::signatures(const json& j): a map
\* keyid -> {"signature": hex, ...}.
v06_signatures(j) ==
    IF "signatures" \notin DOMAIN j THEN [err |-> "json_exception", set |-> {}]
    ELSE IF j.signatures.shape # "object" THEN [err |-> "json_exception", set |-> {}]
    ELSE LET sigs == j.signatures.items
         IN  IF \E k \in DOMAIN sigs : "signature" \notin DOMAIN sigs[k]
             THEN [err |-> "out_of_range", set |-> {}]
             ELSE [err |-> "ok",
                   set |-> {[keyid |-> k, sig |-> sigs[k].signature] : k \in DOMAIN sigs}]

\* A variant of v06::RootRole::keys in which every role is given the keys and
\* threshold of the key_mgr delegation.
v06_keys_KeyMgr(role) ==
    [r \in DOMAIN role.m_delegations |->
        [keys |-> [key \in Range(role.m_delegations["key_mgr"].pubkeys) |->
                      Key_from_ed25519(key)],
         threshold |-> role.m_delegations["key_mgr"].threshold]]

\* std::map<std::string, RoleFullKeys> v06::RootRole::keys() const
v06_keys(role) ==
    [r \in DOMAIN role.m_delegations |->
        [keys |-> [key \in Range(role.m_delegations[r].pubkeys) |-> Key_from_ed25519(key)],
         threshold |-> role.m_delegations[r].threshold]]

\* A variant of v06::RootRole::upgraded_signable that lists the keys of the root
\* delegation only.
upgraded_signable_RootKeysOnly(role) ==
    LET to_role_keys(d) == [keyids |-> d.pubkeys, threshold |-> d.threshold]
        no_keys == [keyids |-> <<>>, threshold |-> 1]
    IN  ("_type" :> "root") @@
        [roles |-> [root |-> to_role_keys(role.m_delegations["root"]),
                    targets |-> to_role_keys(role.m_delegations["key_mgr"]),
                    snapshot |-> no_keys, timestamp |-> no_keys],
         keys |-> v06_keys(role)["root"].keys,
         version |-> role.m_version, spec_version |-> Str_1_0_17]

\* json v06::RootRole::upgraded_signable() const, with RolePubKeys::to_role_keys
\* and to_json of RoleKeys; map::insert keeps the entry already there.
upgraded_signable(role) ==
    LET to_role_keys(d) == [keyids |-> d.pubkeys, threshold |-> d.threshold]
        no_keys == [keyids |-> <<>>, threshold |-> 1]
        allkeys == v06_keys(role)
    IN  ("_type" :> "root") @@
        [roles |-> [root |-> to_role_keys(role.m_delegations["root"]),
                    targets |-> to_role_keys(role.m_delegations["key_mgr"]),
                    snapshot |-> no_keys, timestamp |-> no_keys],
         keys |-> allkeys["root"].keys @@ allkeys["key_mgr"].keys,
         version |-> role.m_version, spec_version |-> Str_1_0_17]

(***************************************************************************)
(* Virtual dispatch on the dynamic type of a root.                         *)
(***************************************************************************)
signatures(role, j) == IF role.kind = "v1" THEN v1_signatures(j) ELSE v06_signatures(j)

keys(role) == IF role.kind = "v1" THEN v1_keys(role) ELSE v06_keys(role)

\* A variant of check_role_signatures that takes the keyring from role, the
\* object whose signatures() it calls, instead of from the object it is called on.
check_role_signatures_OwnKeys(self, data, role) ==
    LET sg == signatures(role, data)
    IN  IF sg.err # "ok" THEN [err |-> sg.err, valid_sig |-> 0]
        ELSE check_signatures(dump(data.signed), sg.set, keys(role)["root"])

\* void RootRoleBase::check_role_signatures(const json& data, const RootRoleBase& role),
\* called on self: the signatures are read as role reads them, the keyring is self's.
check_role_signatures(self, data, role) ==
    LET sg == signatures(role, data)
    IN  IF sg.err # "ok" THEN [err |-> sg.err, valid_sig |-> 0]
        ELSE check_signatures(dump(data.signed), sg.set, keys(self)["root"])

\* A variant of load_from_json that stops after from_json.
self_check_Unchecked(j, parsed) == parsed

\* v1::RootRole::load_from_json and v06::RootRole::load_from_json, as run by the
\* constructors RootRole(const json&).
\* The second statement of load_from_json, on the role that from_json filled:
\* check_role_signatures(j, *this).
self_check(j, parsed) ==
    IF parsed.err # "ok" THEN parsed
    ELSE LET c == check_role_signatures(parsed.role, j, parsed.role)
         IN  IF c.err # "ok" THEN Throw(c.err, parsed.role) ELSE parsed

load_from_json(kind, j) ==
    self_check(j, IF kind = "v1" THEN v1_from_json(j) ELSE v06_from_json(j))

\* A variant of v1::RootRole::create_update that also builds v0.6 roots.
v1_create_update_AnyDialect(j) ==
    IF v1_is_spec_version_compatible(j) THEN load_from_json("v1", j)
    ELSE IF v06_is_spec_version_compatible(j) THEN load_from_json("v06", j)
    ELSE Throw("spec_version_error", NoRoot)

\* std::unique_ptr<RootRoleBase> v1::RootRole::create_update(const json& j)
v1_create_update(j) ==
    IF v1_is_spec_version_compatible(j) THEN load_from_json("v1", j)
    ELSE Throw("spec_version_error", NoRoot)

\* std::unique_ptr<RootRoleBase> v06::RootRole::create_update(const json& j)
v06_create_update(j) ==
    IF v06_is_spec_version_compatible(j) THEN load_from_json("v06", j)
    ELSE IF v1_is_spec_version_compatible(j) THEN load_from_json("v1", j)
    ELSE Throw("spec_version_error", NoRoot)

create_update(self, j) ==
    IF self.kind = "v1" THEN v1_create_update(j) ELSE v06_create_update(j)

\* A variant of the rollback check with its two exceptions exchanged.
version_check_Swapped(new_version, cur_version) ==
    IF new_version # size_inc(cur_version)
    THEN IF size_lt(size_inc(cur_version), new_version)
         THEN "rollback_error"
         ELSE "role_metadata_error"
    ELSE "ok"

\* The rollback check of update(json): which exception, if any, the version raises.
version_check(new_version, cur_version) ==
    IF new_version # size_inc(cur_version)
    THEN IF size_lt(size_inc(cur_version), new_version)
         THEN "role_metadata_error"
         ELSE "rollback_error"
    ELSE "ok"

\* A variant of update(json) that looks at the version before the signatures.
check_update_VersionFirst(self, j, root_update) ==
    IF root_update.err # "ok" THEN root_update
    ELSE LET c == check_role_signatures(self, j, root_update.role)
             v == version_check(root_update.role.m_version, self.m_version)
         IN  IF v # "ok" THEN Throw(v, root_update.role)
             ELSE IF c.err # "ok" THEN Throw(c.err, root_update.role)
             ELSE root_update

\* std::unique_ptr<RootRoleBase> RootRoleBase::update(json j), called on self
\* The statements of update(json) that follow create_update, on its result.
check_update(self, j, root_update) ==
    IF root_update.err # "ok" THEN root_update
    ELSE LET c == check_role_signatures(self, j, root_update.role)
             v == version_check(root_update.role.m_version, self.m_version)
         IN  IF c.err # "ok" THEN Throw(c.err, root_update.role)
             ELSE IF v # "ok" THEN Throw(v, root_update.role)
             ELSE root_update

update(self, j) == check_update(self, j, create_update(self, j))

\* A variant in which the caller takes whatever object update was building.
held_after_update_Partial(self, result) == result.role

\* A variant in which the returned root of the same dialect keeps the keys, roles
\* and delegations of the root update was called on.
held_after_update_KeepKeys(self, result) ==
    IF result.err # "ok" THEN self
    ELSE IF result.role.kind # self.kind THEN result.role
    ELSE [result.role EXCEPT !.m_keys = self.m_keys, !.m_roles = self.m_roles,
                             !.m_delegations = self.m_delegations]

\* What the caller holds after root->update(j): the returned root, or, when update
\* throws, the root it was called on (update and everything it calls leave *this alone).
held_after_update(self, result) == IF result.err = "ok" THEN result.role ELSE self

(***************************************************************************)
(* RoleBase::read_file.  A file is [exists, name, json]; name is the       *)
(* sequence of characters of p.filename().                                 *)
(***************************************************************************)
Digits == {"0", "1", "2", "3", "4", "5", "6", "7", "8", "9"}

Letters == {"a", "e", "j", "n", "o", "r", "s", "t", "x", "g", "k", "y", "m"}

\* \w of the regular expressions
WordChars == Digits \cup Letters \cup {"_"}

RECURSIVE SplitAtDots(_)
SplitAtDots(s) ==
    IF \A i \in 1..Len(s) : s[i] # "." THEN <<s>>
    ELSE LET d == CHOOSE i \in 1..Len(s) : s[i] = "." /\ \A k \in 1..(i - 1) : s[k] # "."
         IN  <<SubSeq(s, 1, d - 1)>> \o SplitAtDots(SubSeq(s, d + 1, Len(s)))

\* [1-9]+\d*
IsVersionNumber(w) ==
    Len(w) >= 1 /\ w[1] \in Digits \ {"0"} /\ \A i \in 1..Len(w) : w[i] \in Digits

\* \w+
IsWord(w) == Len(w) >= 1 /\ \A i \in 1..Len(w) : w[i] \in WordChars

\* ^([1-9]+\d*)\.\w+\.(\w+)\.(\w+)$ and ^[1-9]+\d*\.\w+\.(\w+)\.(\w+)$ match the
\* same names: four dot-separated parts, a version number and three words.
name_re_matches(f_name) ==
    LET parts == SplitAtDots(f_name)
    IN  /\ Len(parts) = 4
        /\ IsVersionNumber(parts[1])
        /\ \A i \in 2..4 : IsWord(parts[i])

DigitValue(c) == CHOOSE n \in 0..9 : ToString(n) = c

\* std::stoul of a string of digits, as a std::size_t
RECURSIVE stoul(_)
stoul(w) ==
    IF w = <<>> THEN 0 ELSE 10 * stoul(SubSeq(w, 1, Len(w) - 1)) + DigitValue(w[Len(w)])

\* type() and file_ext() of a root role, as the characters of a file name
Chars_root == <<"r", "o", "o", "t">>

Chars_json == <<"j", "s", "o", "n">>

\* A variant of read_file that does not look at the type in the file name.
read_file_AnyType(self, p, is_update) ==
    IF ~p.exists THEN [err |-> "role_file_error", j |-> EmptyMap]
    ELSE IF ~name_re_matches(p.name) THEN [err |-> "role_file_error", j |-> EmptyMap]
    ELSE LET parts == SplitAtDots(p.name)
             f_version_str == parts[1]
             f_type == parts[3]
             f_ext == parts[4]
         IN  IF f_ext # Chars_json THEN [err |-> "role_file_error", j |-> EmptyMap]
             ELSE IF is_update /\ SizeOf(stoul(f_version_str)) # size_inc(self.m_version)
                  THEN [err |-> "role_file_error", j |-> EmptyMap]
             ELSE [err |-> "ok", j |-> p.json]

\* json RoleBase::read_file(const fs::path& p, bool update) const, called on self
read_file(self, p, is_update) ==
    IF ~p.exists THEN [err |-> "role_file_error", j |-> EmptyMap]
    ELSE IF ~name_re_matches(p.name) THEN [err |-> "role_file_error", j |-> EmptyMap]
    ELSE LET parts == SplitAtDots(p.name)
             f_version_str == parts[1]
             f_type == parts[3]
             f_ext == parts[4]
         IN  IF f_ext # Chars_json THEN [err |-> "role_file_error", j |-> EmptyMap]
             ELSE IF f_type # Chars_root THEN [err |-> "role_file_error", j |-> EmptyMap]
             ELSE IF is_update /\ SizeOf(stoul(f_version_str)) # size_inc(self.m_version)
                  THEN [err |-> "role_file_error", j |-> EmptyMap]
             ELSE [err |-> "ok", j |-> p.json]

\* std::unique_ptr<RootRoleBase> RootRoleBase::update(fs::path path), called on self
update_path(self, path) ==
    LET f == read_file(self, path, TRUE)
    IN  IF f.err # "ok" THEN Throw(f.err, NoRoot) ELSE update(self, f.j)

\* v1::RootRole::RootRole(const fs::path& path)
v1_RootRole_from_path(path) ==
    LET f == read_file(v1_RootRole, path, FALSE)
    IN  IF f.err # "ok" THEN Throw(f.err, NoRoot) ELSE load_from_json("v1", f.j)

\* v06::RootRole::RootRole(const fs::path& path)
v06_RootRole_from_path(path) ==
    LET f == read_file(v06_RootRole, path, FALSE)
    IN  IF f.err # "ok" THEN Throw(f.err, NoRoot) ELSE load_from_json("v06", f.j)

\* RepoTrust::RepoTrust(url, local_trusted_root, spec_version): the root it holds
RepoTrust(local_trusted_root, spec_version) ==
    IF spec_version = "kV06" THEN v1_RootRole_from_path(local_trusted_root)
    ELSE IF spec_version = "kV1" THEN v1_RootRole_from_path(local_trusted_root)
    ELSE Throw("spec_version_error", NoRoot)

(***************************************************************************)
(* The documents and files tried as inputs.                                *)
(***************************************************************************)
Versions == {SizeOf(n) : n \in 0..MaxVersion} \cup {SIZE_MAX}

KeyLists == {<<"pkA">>, <<"pkB">>, <<"pkA", "pkB">>}

\* The root keys and threshold a document declares: every satisfiable choice.
RootConfigs ==
    {[keys |-> k, threshold |-> t] : k \in KeyLists, t \in 1..MaxThreshold} \ 
        {c \in [keys : KeyLists, threshold : 1..MaxThreshold] : c.threshold > Len(c.keys)}

DeclaredKeys == [k \in PubKeys |-> Key_from_ed25519(k)]

OtherRoleKeys == [keyids |-> <<"pkA">>, threshold |-> 1]

Drop(f, member) == [x \in DOMAIN f \ {member} |-> f[x]]

Put(f, member, value) == (member :> value) @@ f

V1Signed(ver, keyids, thr) ==
    ("_type" :> "root") @@
    [spec_version |-> Str_1_0_17, version |-> ver, keys |-> DeclaredKeys,
     roles |-> [root |-> [keyids |-> keyids, threshold |-> thr],
                snapshot |-> OtherRoleKeys, targets |-> OtherRoleKeys,
                timestamp |-> OtherRoleKeys]]

V06Signed(ver, pubkeys, thr) ==
    [type |-> "root", metadata_spec_version |-> Str_0_6_0, version |-> ver,
     delegations |-> [root |-> [pubkeys |-> pubkeys, threshold |-> thr],
                      key_mgr |-> [pubkeys |-> <<"pkA">>, threshold |-> 1]]]

\* What each key holder contributes to a document: no signature, a signature of
\* this document, a signature of another document, or an undecodable string.
SigKinds == {"none", "good", "stale", "garbled"}

Plan(a, b) == [k \in PubKeys |-> IF k = "pkA" THEN a ELSE b]

SigPlans ==
    { Plan("good", "good"), Plan("good", "none"), Plan("none", "good"),
      Plan("none", "none"), Plan("stale", "good"), Plan("garbled", "good"),
      Plan("good", "garbled") }

BothSign == [k \in PubKeys |-> "good"]

StaleMsg == dump([version |-> SizeOf(0)])

SigOf(k, kind, signed) ==
    [signer |-> k, msg |-> IF kind = "stale" THEN StaleMsg ELSE dump(signed),
     hex |-> kind # "garbled"]

SigArray(signed, plan) ==
    LET ks == SelectSeq(<<"pkA", "pkB">>, LAMBDA k : plan[k] # "none")
    IN  [shape |-> "array",
         items |-> [i \in 1..Len(ks) |->
                       [keyid |-> ks[i], sig |-> SigOf(ks[i], plan[ks[i]], signed)]]]

SigObject(signed, plan) ==
    [shape |-> "object",
     items |-> [k \in {x \in PubKeys : plan[x] # "none"} |->
                   [signature |-> SigOf(k, plan[k], signed)]]]

V1Doc(signed, plan) == [signed |-> signed, signatures |-> SigArray(signed, plan)]

V06Doc(signed, plan) == [signed |-> signed, signatures |-> SigObject(signed, plan)]

V1Docs ==
    {V1Doc(V1Signed(v, c.keys, c.threshold), p) : v \in Versions, c \in RootConfigs, p \in SigPlans}

V06Docs ==
    {V06Doc(V06Signed(v, c.keys, c.threshold), p) : v \in Versions, c \in RootConfigs, p \in SigPlans}

\* Documents that break one rule of the v1 schema, signed by both keys.
V1Defects(s) ==
    LET roles == s.roles
        rootkeys(k, t) == Put(s, "roles", Put(roles, "root", [keyids |-> k, threshold |-> t]))
    IN  { Drop(s, "_type"), Put(s, "_type", "targets"),
          Drop(s, "spec_version"), Put(s, "spec_version", <<"2", ".", "0">>),
          Put(s, "spec_version", <<"1", "0", ".", "0">>),
          Drop(s, "version"), Drop(s, "keys"), Drop(s, "roles"),
          rootkeys(<<"pkA">>, 0), rootkeys(<<>>, 1), rootkeys(<<"zz9">>, 1),
          Put(s, "roles", Put(roles, "targets", [keyids |-> <<"pkA">>, threshold |-> 0])),
          Put(s, "roles", Put(roles, "mirrors", [keyids |-> <<"pkA", "id0">>, threshold |-> 1])),
          Put(s, "roles", Drop(roles, "timestamp")),
          Put(s, "roles", Put(roles, "mirrors", OtherRoleKeys)),
          Put(s, "roles", Put(roles, "bogus", OtherRoleKeys)),
          Put(s, "metadata_spec_version", Str_0_6_0) }

V06Defects(s) ==
    LET dels == s.delegations
        rootkeys(k, t) ==
            Put(s, "delegations", Put(dels, "root", [pubkeys |-> k, threshold |-> t]))
    IN  { Drop(s, "type"), Put(s, "type", "targets"),
          Drop(s, "metadata_spec_version"),
          Put(s, "metadata_spec_version", <<"0", ".", "7", ".", "0">>),
          Put(s, "metadata_spec_version", <<"0", ".", "6">>),
          Drop(s, "version"), Drop(s, "delegations"),
          rootkeys(<<"pkA">>, 0), rootkeys(<<>>, 1),
          Put(s, "delegations", Put(dels, "key_mgr", [pubkeys |-> <<>>, threshold |-> 1])),
          Put(s, "delegations", Drop(dels, "key_mgr")),
          Put(s, "delegations", Put(dels, "targets", [pubkeys |-> <<"pkA">>, threshold |-> 1])),
          Put(s, "spec_version", Str_1_0_17) }

DefectVersions == {SizeOf(1), SizeOf(2)}

\* v1 documents in which pkA signs twice: the same signature twice, and a
\* signature of another document before or after the good one.
RepeatDocs ==
    LET Plans == {<<"good", "good">>, <<"stale", "good">>, <<"good", "stale">>}
        Array(signed, kinds) ==
            [shape |-> "array",
             items |-> [i \in 1..Len(kinds) |->
                           [keyid |-> "pkA", sig |-> SigOf("pkA", kinds[i], signed)]]]
    IN  {[signed |-> V1Signed(v, c.keys, c.threshold),
          signatures |-> Array(V1Signed(v, c.keys, c.threshold), k)] :
            v \in DefectVersions,
            c \in {x \in RootConfigs : x.threshold = Len(x.keys) /\ x.keys[1] = "pkA"},
            k \in Plans}


DefectDocs ==
    UNION {
        {V1Doc(d, BothSign) : d \in V1Defects(V1Signed(v, <<"pkA", "pkB">>, 1))}
        \cup {V06Doc(d, BothSign) : d \in V06Defects(V06Signed(v, <<"pkA", "pkB">>, 1))}
        \cup { Drop(V1Doc(V1Signed(v, <<"pkA", "pkB">>, 1), BothSign), "signatures"),
               Drop(V06Doc(V06Signed(v, <<"pkA", "pkB">>, 1), BothSign), "signatures"),
               Drop(V1Doc(V1Signed(v, <<"pkA", "pkB">>, 1), BothSign), "signed"),
               [signed |-> V1Signed(v, <<"pkA", "pkB">>, 1),
                signatures |-> SigObject(V1Signed(v, <<"pkA", "pkB">>, 1), BothSign)],
               [signed |-> V06Signed(v, <<"pkA", "pkB">>, 1),
                signatures |-> SigArray(V06Signed(v, <<"pkA", "pkB">>, 1), BothSign)] }
        : v \in DefectVersions }

Docs == V1Docs \cup V06Docs \cup DefectDocs \cup RepeatDocs

DotJoin(a, b, c, d) == a \o <<".">> \o b \o <<".">> \o c \o <<".">> \o d

GoodName == DotJoin(<<"1">>, Chars_root, Chars_root, Chars_json)

BadNames ==
    { DotJoin(<<"0">>, Chars_root, Chars_root, Chars_json),
      DotJoin(<<"1">>, Chars_root, <<"k", "e", "y">>, Chars_json),
      DotJoin(<<"1">>, Chars_root, Chars_root, <<"t", "x", "t">>),
      Chars_root \o <<".">> \o Chars_json }

SomeDoc == V1Doc(V1Signed(SizeOf(1), <<"pkA">>, 1), BothSign)

RECURSIVE DecimalOf(_)
DecimalOf(n) ==
    IF n < 10 THEN <<ToString(n)>> ELSE DecimalOf(n \div 10) \o <<ToString(n % 10)>>

VersionedName(n) == DotJoin(DecimalOf(n), Chars_root, Chars_root, Chars_json)

\* The files handed to update(path): fully signed roots of each version under
\* each version's name, the ill-named files and a missing one.
UpdateFileDocs ==
    UNION {{V1Doc(V1Signed(SizeOf(n), <<"pkA", "pkB">>, 1), BothSign),
            V06Doc(V06Signed(SizeOf(n), <<"pkA", "pkB">>, 1), BothSign)} : n \in 1..MaxVersion}

UpdateFiles ==
    {[exists |-> TRUE, name |-> VersionedName(n), json |-> j] :
        n \in 1..(MaxVersion + 1), j \in UpdateFileDocs}
    \cup {[exists |-> TRUE, name |-> n, json |-> SomeDoc] : n \in BadNames}
    \cup {[exists |-> FALSE, name |-> GoodName, json |-> SomeDoc]}
    \cup UNION {
          LET j == V1Doc(V1Signed(SizeOf(n), <<"pkA", "pkB">>, 1), BothSign)
              d == DecimalOf(n)
          IN  {[exists |-> TRUE, name |-> DotJoin(d, <<"s", "v", "1">>, Chars_root, Chars_json),
                json |-> j],
               [exists |-> TRUE, name |-> DotJoin(<<"0">> \o d, Chars_root, Chars_root, Chars_json),
                json |-> j],
               [exists |-> TRUE, name |-> DotJoin(d, Chars_root, <<"k", "e", "y">>, Chars_json),
                json |-> j],
               [exists |-> TRUE, name |-> DotJoin(d, Chars_root, Chars_root, <<"t", "x", "t">>),
                json |-> j],
               [exists |-> TRUE, name |-> d \o <<".">> \o Chars_root \o <<".">> \o Chars_json,
                json |-> j],
               [exists |-> TRUE, name |-> DotJoin(d, Chars_root, <<"k", "e", "y">>, Chars_json),
                json |-> Drop(j, "signed")]}
          : n \in 1..MaxVersion }

\* The documents kept in files: those of version 1, the version GoodName states,
\* and those with no version.
FileDocs ==
    {j \in Docs : ("signed" \in DOMAIN j /\ "version" \in DOMAIN j.signed)
                      => j.signed.version = SizeOf(1)}

Files ==
    {[exists |-> TRUE, name |-> GoodName, json |-> j] : j \in FileDocs}
    \cup {[exists |-> TRUE, name |-> n, json |-> SomeDoc] : n \in BadNames}
    \cup {[exists |-> FALSE, name |-> GoodName, json |-> SomeDoc]}

SpecVersions == {"kV06", "kV1", "kUnsupported"}

(***************************************************************************)
(* Facts about an input, in the vocabulary of the specification.  They are *)
(* recorded with each call and are what the properties below speak about;  *)
(* none of them is computed by the operators that model the code.          *)
(***************************************************************************)
HasMember(j, m) == "signed" \in DOMAIN j /\ m \in DOMAIN j.signed

\* The marks of the two dialects: a spec_version 1.x, a metadata_spec_version 0.6.x.
HasV1Mark(j) ==
    /\ HasMember(j, "spec_version")
    /\ Len(j.signed.spec_version) >= 2
    /\ j.signed.spec_version[1] = "1" /\ j.signed.spec_version[2] = "."

HasV06Mark(j) ==
    /\ HasMember(j, "metadata_spec_version")
    /\ Len(j.signed.metadata_spec_version) >= 4
    /\ SubSeq(j.signed.metadata_spec_version, 1, 4) = <<"0", ".", "6", ".">>

\* A v1 document carries the v1 mark and no metadata_spec_version; a v0.6
\* document carries the v0.6 mark and no spec_version.
DocDialect(j) ==
    IF HasV1Mark(j) /\ ~HasMember(j, "metadata_spec_version") THEN "v1"
    ELSE IF HasV06Mark(j) /\ ~HasMember(j, "spec_version") THEN "v06"
    ELSE IF HasV1Mark(j) /\ HasV06Mark(j) THEN "both"
    ELSE "other"

V1WellFormed(j) ==
    /\ HasV1Mark(j)
    /\ {"_type", "version", "keys", "roles"} \subseteq DOMAIN j.signed
    /\ j.signed["_type"] = "root"
    /\ {"root", "snapshot", "targets", "timestamp"} \subseteq DOMAIN j.signed.roles
    /\ DOMAIN j.signed.roles \subseteq {"root", "targets", "snapshot", "timestamp", "mirrors"}
    /\ \A r \in DOMAIN j.signed.roles :
          /\ Len(j.signed.roles[r].keyids) >= 1
          /\ j.signed.roles[r].threshold >= 1
          /\ \A i \in 1..Len(j.signed.roles[r].keyids) :
                j.signed.roles[r].keyids[i] \in DOMAIN j.signed.keys
    /\ "signatures" \in DOMAIN j
    /\ j.signatures.shape = "array"

V06WellFormed(j) ==
    /\ HasV06Mark(j)
    /\ {"type", "version", "delegations"} \subseteq DOMAIN j.signed
    /\ j.signed.type = "root"
    /\ DOMAIN j.signed.delegations = {"root", "key_mgr"}
    /\ \A r \in DOMAIN j.signed.delegations :
          /\ Len(j.signed.delegations[r].pubkeys) >= 1
          /\ j.signed.delegations[r].threshold >= 1
    /\ "signatures" \in DOMAIN j
    /\ j.signatures.shape = "object"
    /\ \A k \in DOMAIN j.signatures.items : "signature" \in DOMAIN j.signatures.items[k]

WellFormed(j) == V1WellFormed(j) \/ V06WellFormed(j)

\* A keyring as the specification describes it: [val: keyid -> key value, threshold].
DocRootKeyring(j) ==
    IF V1WellFormed(j)
    THEN [val |-> [k \in Range(j.signed.roles.root.keyids) |-> j.signed.keys[k].keyval],
          threshold |-> j.signed.roles.root.threshold]
    ELSE [val |-> [k \in Range(j.signed.delegations.root.pubkeys) |-> k],
          threshold |-> j.signed.delegations.root.threshold]

RootKeyringOf(root) ==
    IF root.kind = "v1"
    THEN [val |-> [k \in Range(root.m_roles.root.keyids) |-> root.m_keys[k].keyval],
          threshold |-> root.m_roles.root.threshold]
    ELSE [val |-> [k \in Range(root.m_delegations.root.pubkeys) |-> k],
          threshold |-> root.m_delegations.root.threshold]

DocSignatures(j) ==
    IF j.signatures.shape = "array"
    THEN {[keyid |-> j.signatures.items[i].keyid, sig |-> j.signatures.items[i].sig] :
             i \in DOMAIN j.signatures.items}
    ELSE {[keyid |-> k, sig |-> j.signatures.items[k].signature] :
             k \in DOMAIN j.signatures.items}

\* The signature s is a valid Ed25519 signature of data under the key that kr
\* lists for its keyid.
IsValidFor(s, data, kr) ==
    /\ s.keyid \in DOMAIN kr.val
    /\ s.sig.hex /\ kr.val[s.keyid] \in PubKeys
    /\ s.sig.signer = kr.val[s.keyid] /\ s.sig.msg = data

NumValid(sigs, data, kr) ==
    Cardinality({k \in DOMAIN kr.val : \E s \in sigs : s.keyid = k /\ IsValidFor(s, data, kr)})

Reaches(sigs, data, kr) == NumValid(sigs, data, kr) >= kr.threshold

\* Some keyid is written more than once among the signatures of j.
RepeatsKeyid(j) ==
    /\ j.signatures.shape = "array"
    /\ \E a, b \in DOMAIN j.signatures.items :
          a # b /\ j.signatures.items[a].keyid = j.signatures.items[b].keyid

\* The signatures of j that verify under kr, each written entry counted.
NumValidEntries(j, data, kr) ==
    IF j.signatures.shape = "array"
    THEN Cardinality({i \in DOMAIN j.signatures.items :
                        IsValidFor([keyid |-> j.signatures.items[i].keyid,
                                    sig |-> j.signatures.items[i].sig], data, kr)})
    ELSE NumValid(DocSignatures(j), data, kr)

\* The data model's invariant on what the check decodes: every signature under a
\* keyid of kr is 128 hex characters and the key value it names is 64.
Decodable(sigs, kr) ==
    \A s \in sigs : s.keyid \in DOMAIN kr.val => s.sig.hex /\ kr.val[s.keyid] \in PubKeys

\* a < b, and b = a + 1, on the numbers the limbs stand for
Less(a, b) == \E i \in 1..4 : a[i] < b[i] /\ \A k \in 1..(i - 1) : a[k] = b[k]

IsNext(a, b) ==
    \E i \in 1..4 :
        /\ b[i] = a[i] + 1
        /\ \A k \in 1..(i - 1) : a[k] = b[k]
        /\ \A k \in (i + 1)..4 : a[k] = LimbMax /\ b[k] = 0

VersionRel(cur, j) ==
    IF ~HasMember(j, "version") THEN "none"
    ELSE IF IsNext(cur, j.signed.version) THEN "next"
    ELSE IF Less(cur, j.signed.version) THEN "above"
    ELSE "notabove"

\* What the schema of the dialects forbids and the document j does
\* ("with_mirrors" is allowed: the four mandatory roles and mirrors).  A document
\* has the defect "signatures" when its `signed` is that of a well-formed document
\* and its `signatures` is missing or not of the shape of its dialect.
Defects(j) ==
    LET Mandatory == {"root", "snapshot", "targets", "timestamp"}
        Has(d) ==
            CASE d = "role_keys" ->
                   /\ HasMember(j, "roles")
                   /\ \E r \in DOMAIN j.signed.roles :
                         \/ Len(j.signed.roles[r].keyids) = 0
                         \/ j.signed.roles[r].threshold = 0
                         \/ \E i \in 1..Len(j.signed.roles[r].keyids) :
                               ~HasMember(j, "keys")
                                   \/ j.signed.roles[r].keyids[i] \notin DOMAIN j.signed.keys
              [] d = "role_names" ->
                   /\ HasMember(j, "roles")
                   /\ \/ \E m \in Mandatory : m \notin DOMAIN j.signed.roles
                      \/ \E r \in DOMAIN j.signed.roles : r \notin Mandatory \cup {"mirrors"}
              [] d = "delegations" ->
                   /\ HasMember(j, "delegations")
                   /\ \/ DOMAIN j.signed.delegations # {"root", "key_mgr"}
                      \/ \E r \in DOMAIN j.signed.delegations :
                            \/ Len(j.signed.delegations[r].pubkeys) = 0
                            \/ j.signed.delegations[r].threshold = 0
              [] d = "signatures" ->
                   /\ "signed" \in DOMAIN j
                   /\ ~WellFormed(j)
                   /\ \/ V1WellFormed(Put(j, "signatures", [shape |-> "array", items |-> <<>>]))
                      \/ V06WellFormed(Put(j, "signatures",
                                           [shape |-> "object", items |-> EmptyMap]))
              [] d = "with_mirrors" ->
                   /\ HasMember(j, "roles")
                   /\ DOMAIN j.signed.roles = Mandatory \cup {"mirrors"}
    IN  {d \in {"role_keys", "role_names", "delegations", "signatures", "with_mirrors"} :
            Has(d)}

\* The name of the file f handed to update(path) on a root of version cur:
\* "next" for <cur + 1>.<label>.root.json, "other_version" for another number
\* without leading zero in that form, "malformed" otherwise; "missing" when there
\* is no such file.
FileNameKind(cur, f) ==
    LET Labels == {Chars_root, <<"s", "v", "1">>}
        Named(n) == \E l \in Labels : f.name = DotJoin(DecimalOf(n), l, Chars_root, Chars_json)
    IN  IF ~f.exists THEN "missing"
        ELSE IF \E n \in 1..(MaxVersion + 1) : Named(n) /\ IsNext(cur, SizeOf(n)) THEN "next"
        ELSE IF \E n \in 1..(MaxVersion + 1) : Named(n) THEN "other_version"
        ELSE "malformed"

NoCall ==
    [op |-> "none", err |-> "none", cur |-> "none", cand |-> "other", wf |-> FALSE,
     met_new |-> FALSE,
     met_cur |-> FALSE, hexok |-> FALSE, rel |-> "none", sv |-> "none", file_ok |-> FALSE,
     dup |-> FALSE, entries_new |-> FALSE, defects |-> {}, fname |-> "none"]

\* The facts about a document that do not depend on the root it is given to,
\* for every document tried.
DocFacts ==
    [j \in Docs \cup {f.json : f \in UpdateFiles \cup Files} |->
        LET wf == WellFormed(j)
            sigs == IF wf THEN DocSignatures(j) ELSE {}
            data == IF wf THEN dump(j.signed) ELSE StaleMsg
        IN  [wf |-> wf, sigs |-> sigs, data |-> data, cand |-> DocDialect(j),
             met_new |-> wf /\ Reaches(sigs, data, DocRootKeyring(j)),
             own_hex |-> wf /\ Decodable(sigs, DocRootKeyring(j)),
             dup |-> wf /\ RepeatsKeyid(j),
             entries_new |-> wf /\ NumValidEntries(j, data, DocRootKeyring(j))
                                      >= DocRootKeyring(j).threshold,
             defects |-> Defects(j)]]

\* The record of a call op with input document j on the root cur (NoRoot for a load).
CallFacts(op, cur, j, err) ==
    LET f == DocFacts[j]
        has_cur == cur.kind # "none"
    IN  [op |-> op, err |-> err, cur |-> cur.kind, cand |-> f.cand, wf |-> f.wf,
         met_new |-> f.met_new,
         met_cur |-> f.wf /\ has_cur /\ Reaches(f.sigs, f.data, RootKeyringOf(cur)),
         hexok |-> /\ f.own_hex
                   /\ has_cur => Decodable(f.sigs, RootKeyringOf(cur)),
         rel |-> IF has_cur THEN VersionRel(cur.m_version, j) ELSE "none",
         sv |-> "none", file_ok |-> FALSE,
         dup |-> f.dup, entries_new |-> f.entries_new,
         defects |-> f.defects, fname |-> "none"]

(***************************************************************************)
(* The root chain: loading a trusted root, then updating it.               *)
(***************************************************************************)
NotRun == [err |-> "not_run", valid_sig |-> 0]

CsIdle ==
    [signed_data |-> StaleMsg, signatures |-> {},
     keyring |-> [keys |-> EmptyMap, threshold |-> 1],
     result |-> NotRun, before |-> NotRun]

Init ==
    /\ p_root = NoRoot
    /\ call = NoCall
    /\ recovered = FALSE
    /\ cs = CsIdle

\* v1::RootRole root(j)
LoadV1 ==
    /\ p_root = NoRoot
    /\ \E j \in Docs :
          \E r \in {load_from_json("v1", j)} :
              /\ p_root' = IF r.err = "ok" THEN r.role ELSE NoRoot
              /\ call' = CallFacts("load_v1", NoRoot, j, r.err)
    /\ UNCHANGED <<recovered, cs>>

\* v06::RootRole root(j)
LoadV06 ==
    /\ p_root = NoRoot
    /\ \E j \in Docs :
          \E r \in {load_from_json("v06", j)} :
              /\ p_root' = IF r.err = "ok" THEN r.role ELSE NoRoot
              /\ call' = CallFacts("load_v06", NoRoot, j, r.err)
    /\ UNCHANGED <<recovered, cs>>

\* RepoTrust trust(url, local_trusted_root, spec_version)
NewRepoTrust ==
    /\ p_root = NoRoot
    /\ \E f \in Files, sv \in SpecVersions :
          \E r \in {RepoTrust(f, sv)} :
              /\ p_root' = IF r.err = "ok" THEN r.role ELSE NoRoot
              /\ call' = [CallFacts("repo_trust", NoRoot, f.json, r.err) EXCEPT
                             !.sv = sv, !.file_ok = f.exists /\ f.name = GoodName]
    /\ UNCHANGED <<recovered, cs>>

\* root = root->update(j)
Update ==
    /\ p_root # NoRoot
    /\ \E j \in Docs :
          \E r \in {update(p_root, j)} :
              /\ p_root' = held_after_update(p_root, r)
              /\ call' = CallFacts("update", p_root, j, r.err)
              /\ recovered' = (r.err = "ok" /\ call.op = "update" /\ call.err # "ok")
    /\ UNCHANGED cs

\* root = root->update(path)
UpdateFromFile ==
    /\ p_root # NoRoot
    /\ \E f \in UpdateFiles :
          \E r \in {update_path(p_root, f)} :
              /\ p_root' = held_after_update(p_root, r)
              /\ call' = [CallFacts("update_path", p_root, f.json, r.err) EXCEPT
                             !.file_ok = FileNameKind(p_root.m_version, f) = "next",
                             !.fname = FileNameKind(p_root.m_version, f)]
    /\ recovered' = FALSE
    /\ UNCHANGED cs

Next == LoadV1 \/ LoadV06 \/ NewRepoTrust \/ Update \/ UpdateFromFile

Spec == Init /\ [][Next]_vars

(***************************************************************************)
(* check_signatures on its own: cs holds the arguments of a call, its      *)
(* result, and the result of the call before signatures were added.        *)
(***************************************************************************)
Msg == dump(SomeDoc.signed)

\* What is filed under each keyid of PubKeys: nothing, or a signature by that key
\* (of Msg, of another document, undecodable), or a signature of Msg by the other key.
CsSigKinds == SigKinds \cup {"other"}

OtherKey(k) == CHOOSE o \in PubKeys : o # k

CsSig(k, kind) ==
    [keyid |-> k,
     sig |-> IF kind = "other" THEN SigOf(OtherKey(k), "good", SomeDoc.signed)
             ELSE SigOf(k, kind, SomeDoc.signed)]

CsSignatureSets ==
    {{CsSig(k, plan[k]) : k \in {x \in PubKeys : plan[x] # "none"}} :
        plan \in [PubKeys -> CsSigKinds]}

\* Keyrings over the keyids of PubKeys; the key value of one key may be
\* undecodable, and both keyids may name the same key value.
CsKeyrings ==
    LET KeyVals == {[k \in PubKeys |-> IF k \in B THEN BadHex ELSE k] :
                       B \in {{}, {"pkA"}, {"pkB"}}}
                   \cup {[k \in PubKeys |-> "pkA"]}
    IN  {[keys |-> [k \in K |-> Key_from_ed25519(v[k])], threshold |-> t] :
            K \in SUBSET PubKeys \ {{}}, v \in KeyVals, t \in 1..MaxThreshold}

InitSig ==
    /\ p_root = NoRoot
    /\ call = NoCall
    /\ recovered = FALSE
    /\ cs \in {[signed_data |-> Msg, signatures |-> s, keyring |-> kr,
                result |-> NotRun, before |-> NotRun] :
                  s \in CsSignatureSets, kr \in CsKeyrings}

\* check_signatures(signed_data, signatures, keyring)
CheckSignatures ==
    /\ cs.result = NotRun
    /\ cs' = [cs EXCEPT !.result = check_signatures(cs.signed_data, cs.signatures, cs.keyring)]
    /\ UNCHANGED <<p_root, call, recovered>>

\* The same call with one more signature, under a keyid the keyring does not
\* list: a signature of Msg by a real key, or an undecodable one.
CheckWithUnknownSignature ==
    \E k \in KeyIds \ (DOMAIN cs.keyring.keys \cup {s.keyid : s \in cs.signatures}),
       kind \in {"good", "garbled"} :
        LET more == cs.signatures \cup {[keyid |-> k, sig |-> SigOf("pkA", kind, SomeDoc.signed)]}
        IN  /\ cs.result # NotRun
            /\ cs' = [cs EXCEPT !.signatures = more,
                                !.before = cs.result,
                                !.result = check_signatures(cs.signed_data, more, cs.keyring)]
            /\ UNCHANGED <<p_root, call, recovered>>

NextSig == CheckSignatures \/ CheckWithUnknownSignature

SpecSig == InitSig /\ [][NextSig]_vars

(***************************************************************************)
(* Properties.  Those about the chain are stated on call, the record of    *)
(* the last operation, and on p_root, the root held after it (in an action *)
(* formula, p_root is the root held before the step and p_root' after).    *)
(***************************************************************************)
(***************************************************************************)
(* bin2hex and hex2bin.  A byte and a character are numbers 0..255.  An     *)
(* unsigned int is kept as the 32-bit two's complement number with the same *)
(* bits, so that c - 10U below 0 has all its high bits set as in the code.  *)
(***************************************************************************)
MaxBinLen == 2       \* byte strings of up to MaxBinLen bytes are encoded
MaxHexLen == 3       \* strings of up to MaxHexLen sampled characters are decoded

\* a & b, a | b, a ^ b on unsigned int
RECURSIVE bitop(_, _, _)
bitop(op, a, b) ==
    LET bit(x, y) == CASE op = "and" -> x * y
                       [] op = "or" -> x + y - x * y
                       [] op = "xor" -> (x + y) % 2
    IN  IF a \in {0, -1} /\ b \in {0, -1}
        THEN -bit(-a, -b)
        ELSE bit(a % 2, b % 2) + 2 * bitop(op, a \div 2, b \div 2)

\* ~a on unsigned int
bit_not(a) == -a - 1

\* a >> n on unsigned int
shr(a, n) == IF a >= 0 THEN a \div 2^n ELSE (a \div 2^n) + 2^(32 - n)

\* (unsigned char) a
uchar(a) == a % 256

\* A variant of bin2hex that writes the low nibble of each byte first.
RECURSIVE bin2hex_LowFirst(_, _)
bin2hex_LowFirst(hex_maxlen, bin) ==
    LET digit(n) == uchar(87 + n + bitop("and", shr(n - 10, 8), bit_not(38)))
    IN  IF hex_maxlen < Len(bin) * 2 THEN [err |-> "runtime_error", hex |-> <<>>]
        ELSE IF bin = <<>> THEN [err |-> "ok", hex |-> <<>>]
        ELSE [err |-> "ok",
              hex |-> <<digit(bitop("and", bin[1], 15)), digit(shr(bin[1], 4))>>
                          \o bin2hex_LowFirst(hex_maxlen, Tail(bin)).hex]

\* char* bin2hex(char* hex, size_t hex_maxlen, const unsigned char* bin, size_t bin_len):
\* the characters written before the terminator, or the exception.
bin2hex(hex_maxlen, bin) ==
    LET digit(n) == uchar(87 + n + bitop("and", shr(n - 10, 8), bit_not(38)))
        x(i) == LET c == bitop("and", bin[i], 15)
                    b == shr(bin[i], 4)
                IN  bitop("or", digit(c) * 2^8, digit(b))
        hex == [k \in 1..(2 * Len(bin)) |->
                   IF k % 2 = 1 THEN uchar(x((k + 1) \div 2))
                   ELSE uchar(shr(x(k \div 2), 8))]
    IN  IF ~size_lt(SizeOf(Len(bin)), <<(LimbMax - 1) \div 2, LimbMax, LimbMax, LimbMax>>)
           \/ hex_maxlen < Len(bin) * 2
        THEN [err |-> "runtime_error", hex |-> <<>>]
        ELSE [err |-> "ok", hex |-> hex]

\* The while loop of hex2bin.  st holds the locals: bin_pos, hex_pos, ret, c_acc,
\* state, the bytes written to bin, and errno.
RECURSIVE hex2bin_loop(_, _, _, _)
hex2bin_loop(st, bin_maxlen, hex, ignore) ==
    IF ~(st.hex_pos < Len(hex)) THEN st
    ELSE LET c == uchar(hex[st.hex_pos + 1])
             c_num == uchar(bitop("xor", c, 48))
             c_num0 == uchar(shr(c_num - 10, 8))
             c_alpha == uchar(bitop("and", c, bit_not(32)) - 55)
             c_alpha0 == uchar(shr(bitop("xor", c_alpha - 10, c_alpha - 16), 8))
             c_val == uchar(bitop("or", bitop("and", c_num0, c_num),
                                        bitop("and", c_alpha0, c_alpha)))
         IN  IF bitop("or", c_num0, c_alpha0) = 0
             THEN IF ~ignore.null /\ st.state = 0 /\ c \in ignore.chars \cup {0}
                  THEN hex2bin_loop([st EXCEPT !.hex_pos = @ + 1], bin_maxlen, hex, ignore)
                  ELSE st
             ELSE IF st.bin_pos >= bin_maxlen
                  THEN [st EXCEPT !.ret = -1, !.errno = "ERANGE"]
             ELSE IF st.state = 0
                  THEN hex2bin_loop([st EXCEPT !.c_acc = uchar(c_val * 16),
                                               !.state = uchar(bit_not(@)),
                                               !.hex_pos = @ + 1],
                                    bin_maxlen, hex, ignore)
                  ELSE hex2bin_loop([st EXCEPT !.bin = Append(@, bitop("or", st.c_acc, c_val)),
                                               !.bin_pos = @ + 1,
                                               !.state = uchar(bit_not(@)),
                                               !.hex_pos = @ + 1],
                                    bin_maxlen, hex, ignore)

\* int hex2bin(bin, bin_maxlen, hex, hex_len, ignore, bin_len, hex_end) with
\* hex_len = Len(hex) and a bin_len pointer; ignore is [null, chars]; want_end
\* tells whether hex_end is given.  Returns ret, *bin_len, the bytes left in
\* bin, the position *hex_end points to, and errno.
hex2bin(bin_maxlen, hex, ignore, want_end) ==
    LET s0 == hex2bin_loop([bin_pos |-> 0, hex_pos |-> 0, ret |-> 0, c_acc |-> 0,
                            state |-> 0, bin |-> <<>>, errno |-> "none"],
                           bin_maxlen, hex, ignore)
        s1 == IF s0.state # 0
              THEN [s0 EXCEPT !.hex_pos = @ - 1, !.errno = "EINVAL", !.ret = -1]
              ELSE s0
        s2 == IF s1.ret # 0 THEN [s1 EXCEPT !.bin_pos = 0] ELSE s1
        s3 == IF ~want_end /\ s2.hex_pos # Len(hex)
              THEN [s2 EXCEPT !.errno = "EINVAL", !.ret = -1]
              ELSE s2
    IN  [ret |-> s3.ret, bin_len |-> s3.bin_pos, bin |-> s3.bin,
         hex_end |-> s3.hex_pos, errno |-> s3.errno]

\* Inputs: every single byte, and strings of sampled bytes; every single
\* character, and strings of sampled characters (0 9 a f A F, and g : NUL that
\* are not hex digits).
Bins ==
    LET Samples == {0, 9, 10, 175, 240, 255}
    IN  {<<b>> : b \in 0..255}
        \cup UNION {[1..n -> Samples] : n \in 0..MaxBinLen}

HexStrings ==
    LET Samples == {48, 57, 97, 102, 65, 70, 103, 58, 0}
    IN  {<<c>> : c \in 0..255} \cup {<<c, 55>> : c \in 0..255}
        \cup UNION {[1..n -> Samples] : n \in 0..MaxHexLen}

Ignores == {[null |-> TRUE, chars |-> {}], [null |-> FALSE, chars |-> {58}]}

HexIdle ==
    [stage |-> "input", kind |-> "bin", src |-> <<>>, hex_maxlen |-> 0, hex |-> <<>>,
     bin_maxlen |-> 0, ignore |-> [null |-> TRUE, chars |-> {}], want_end |-> FALSE,
     enc |-> [err |-> "none", hex |-> <<>>],
     dec |-> [ret |-> 0, bin_len |-> 0, bin |-> <<>>, hex_end |-> 0, errno |-> "none"]]

\* A byte string to encode, or a string to decode.
InitHex ==
    /\ p_root = NoRoot
    /\ call = NoCall
    /\ recovered = FALSE
    /\ \/ \E b \in Bins : cs = [HexIdle EXCEPT !.src = b]
       \/ \E h \in HexStrings : cs = [HexIdle EXCEPT !.kind = "hex", !.hex = h]

\* bin2hex(hex, hex_maxlen, bin, bin_len)
Bin2Hex ==
    /\ cs.stage = "input" /\ cs.kind = "bin"
    /\ \E hex_maxlen \in 0..(2 * MaxBinLen + 1) :
          \E r \in {bin2hex(hex_maxlen, cs.src)} :
              cs' = [cs EXCEPT !.stage = "encoded", !.hex_maxlen = hex_maxlen,
                               !.enc = r, !.hex = r.hex]
    /\ UNCHANGED <<p_root, call, recovered>>

\* hex2bin(bin, bin_maxlen, hex, hex_len, ignore, &bin_len, hex_end) of a given
\* string, or of what bin2hex wrote
Hex2Bin ==
    /\ \/ cs.stage = "input" /\ cs.kind = "hex"
       \/ cs.stage = "encoded" /\ cs.enc.err = "ok"
    /\ \E bin_maxlen \in 0..MaxBinLen, ignore \in Ignores, want_end \in BOOLEAN :
          \E r \in {hex2bin(bin_maxlen, cs.hex, ignore, want_end)} :
              cs' = [cs EXCEPT !.stage = "decoded", !.bin_maxlen = bin_maxlen,
                               !.ignore = ignore, !.want_end = want_end, !.dec = r]
    /\ UNCHANGED <<p_root, call, recovered>>

NextHex == Bin2Hex \/ Hex2Bin

SpecHex == InitHex /\ [][NextHex]_vars

(***************************************************************************)
(* The OpenSSL objects of generate_ed25519_keypair, sign and verify.  env   *)
(* tells what each library call yields: whether a constructor returns an   *)
(* object, and the status (1 or 0) of the other calls.  The result is the   *)
(* return value, the objects the call acquired and the objects it freed.    *)
(***************************************************************************)
MaxCalls == 3        \* operations run one after another in a process

\* int generate_ed25519_keypair(unsigned char* pk, unsigned char* sk)
generate_ed25519_keypair(env) ==
    LET pctx == IF env.pctx THEN {"EVP_PKEY_CTX"} ELSE {}
    IN  IF env.keygen_init # 1
        THEN [ret |-> env.keygen_init, acquired |-> pctx, freed |-> {}]
        ELSE IF env.keygen # 1
        THEN [ret |-> env.keygen, acquired |-> pctx, freed |-> {}]
        ELSE IF env.get_raw_public_key # 1
        THEN [ret |-> env.get_raw_public_key, acquired |-> pctx \cup {"EVP_PKEY"},
              freed |-> {}]
        ELSE IF env.get_raw_private_key # 1
        THEN [ret |-> env.get_raw_private_key, acquired |-> pctx \cup {"EVP_PKEY"},
              freed |-> {}]
        ELSE [ret |-> 1, acquired |-> pctx \cup {"EVP_PKEY"}, freed |-> pctx]

\* int sign(const std::string& data, const unsigned char* sk, unsigned char* signature)
sign(env) ==
    LET objects == (IF env.ed_key THEN {"EVP_PKEY"} ELSE {})
                       \cup (IF env.md_ctx THEN {"EVP_MD_CTX"} ELSE {})
    IN  IF ~env.ed_key THEN [ret |-> 0, acquired |-> objects, freed |-> {}]
        ELSE IF env.init # 1 THEN [ret |-> env.init, acquired |-> objects, freed |-> {}]
        ELSE IF env.digest # 1 THEN [ret |-> env.digest, acquired |-> objects, freed |-> {}]
        ELSE [ret |-> 1, acquired |-> objects, freed |-> {"EVP_MD_CTX"}]

\* int verify(const unsigned char* data, std::size_t data_len, unsigned char* pk,
\* unsigned char* signature), with its objects
verify_evp(env) ==
    LET objects == (IF env.ed_key THEN {"EVP_PKEY"} ELSE {})
                       \cup (IF env.md_ctx THEN {"EVP_MD_CTX"} ELSE {})
    IN  IF ~env.ed_key THEN [ret |-> 0, acquired |-> objects, freed |-> {}]
        ELSE IF env.init # 1 THEN [ret |-> env.init, acquired |-> objects, freed |-> {}]
        ELSE IF env.digest # 1 THEN [ret |-> env.digest, acquired |-> objects, freed |-> {}]
        ELSE [ret |-> 1, acquired |-> objects, freed |-> {"EVP_MD_CTX"}]

\* The process after the call op returned r: the objects alive are counted.
AfterEvpCall(op, r) ==
    [calls |-> cs.calls + 1,
     live |-> [k \in DOMAIN cs.live |->
                  cs.live[k] + (IF k \in r.acquired \ r.freed THEN 1 ELSE 0)],
     op |-> op, result |-> r]

InitEvp ==
    /\ p_root = NoRoot
    /\ call = NoCall
    /\ recovered = FALSE
    /\ cs = [calls |-> 0,
             live |-> [k \in {"EVP_PKEY_CTX", "EVP_PKEY", "EVP_MD_CTX"} |-> 0],
             op |-> "none", result |-> [ret |-> 0, acquired |-> {}, freed |-> {}]]

\* A call of generate_ed25519_keypair; key generation needs a context.
GenerateKeypair ==
    /\ cs.calls < MaxCalls
    /\ \E env \in [pctx : BOOLEAN, keygen_init : {0, 1}, keygen : {0, 1},
                   get_raw_public_key : {0, 1}, get_raw_private_key : {0, 1}] :
          /\ ~env.pctx => env.keygen_init = 0
          /\ cs' = AfterEvpCall("generate_ed25519_keypair", generate_ed25519_keypair(env))
    /\ UNCHANGED <<p_root, call, recovered>>

\* A call of sign; the digest needs a context.
Sign ==
    /\ cs.calls < MaxCalls
    /\ \E env \in [ed_key : BOOLEAN, md_ctx : BOOLEAN, init : {0, 1}, digest : {0, 1}] :
          /\ ~env.md_ctx => env.init = 0
          /\ cs' = AfterEvpCall("sign", sign(env))
    /\ UNCHANGED <<p_root, call, recovered>>

\* A call of verify; digest = 0 is also what a wrong signature gives.
Verify ==
    /\ cs.calls < MaxCalls
    /\ \E env \in [ed_key : BOOLEAN, md_ctx : BOOLEAN, init : {0, 1}, digest : {0, 1}] :
          /\ ~env.md_ctx => env.init = 0
          /\ cs' = AfterEvpCall("verify", verify_evp(env))
    /\ UNCHANGED <<p_root, call, recovered>>

NextEvp == GenerateKeypair \/ Sign \/ Verify

SpecEvp == InitEvp /\ [][NextEvp]_vars

(***************************************************************************)
(* Chains of roots: a root is loaded and updated again and again, and cs   *)
(* remembers which documents the chain went through.  cs.trusted is the    *)
(* root keyring written in the document the held root was built from,      *)
(* cs.older the one before it; against, before, at and signers describe    *)
(* the last update call: the keyrings trusted and older at the call, the   *)
(* number of updates accepted before it, and the key values whose          *)
(* signature of the candidate verifies.  cs.signable is what               *)
(* upgraded_signable returned when it was last called on the held root.    *)
(***************************************************************************)
ChainDocs ==
    LET Plans == {Plan(a, b) : a, b \in {"good", "none"}}
        Vers == {SizeOf(n) : n \in 0..MaxVersion}
    IN  {V1Doc(V1Signed(v, c.keys, c.threshold), p) :
            v \in Vers, c \in RootConfigs, p \in Plans}
        \cup {V06Doc(V06Signed(v, c.keys, c.threshold), p) :
                 v \in Vers, c \in RootConfigs, p \in Plans}

\* v1::RootRole root(j) or v06::RootRole root(j), at the head of a chain
ChainLoad ==
    /\ p_root = NoRoot
    /\ \E j \in ChainDocs, kind \in {"v1", "v06"} :
          \E r \in {load_from_json(kind, j)} :
              LET none == [keys |-> {}, threshold |-> 0]
                  kr == DocRootKeyring(j)
              IN  /\ p_root' = IF r.err = "ok" THEN r.role ELSE NoRoot
                  /\ call' = CallFacts(IF kind = "v1" THEN "load_v1" ELSE "load_v06",
                                       NoRoot, j, r.err)
                  /\ cs' = [trusted |-> IF r.err = "ok"
                                        THEN [keys |-> {kr.val[k] : k \in DOMAIN kr.val},
                                              threshold |-> kr.threshold]
                                        ELSE none,
                            older |-> none, against |-> none, before |-> none,
                            links |-> 0, at |-> 0, signers |-> {},
                            upgraded |-> FALSE, signable |-> EmptyMap]
    /\ UNCHANGED recovered

\* root = root->update(j), on the root a chain has reached
ChainUpdate ==
    /\ p_root # NoRoot
    /\ \E j \in ChainDocs :
          \E r \in {update(p_root, j)} :
              LET kr == DocRootKeyring(j)
                  f == DocFacts[j]
                  ok == r.err = "ok"
              IN  /\ p_root' = held_after_update(p_root, r)
                  /\ call' = CallFacts("update", p_root, j, r.err)
                  /\ cs' = [trusted |-> IF ok
                                        THEN [keys |-> {kr.val[k] : k \in DOMAIN kr.val},
                                              threshold |-> kr.threshold]
                                        ELSE cs.trusted,
                            older |-> IF ok THEN cs.trusted ELSE cs.older,
                            against |-> cs.trusted, before |-> cs.older,
                            links |-> IF ok THEN cs.links + 1 ELSE cs.links,
                            at |-> cs.links,
                            signers |-> {k \in PubKeys :
                                            \E s \in f.sigs : /\ s.sig.hex
                                                              /\ s.sig.signer = k
                                                              /\ s.sig.msg = f.data},
                            upgraded |-> FALSE, signable |-> EmptyMap]
    /\ UNCHANGED recovered

\* json j = root.upgraded_signable(), on the v0.6 root a chain has reached
UpgradedSignable ==
    /\ p_root.kind = "v06"
    /\ cs' = [cs EXCEPT !.upgraded = TRUE, !.signable = upgraded_signable(p_root)]
    /\ UNCHANGED <<p_root, call, recovered>>

NextChain == ChainLoad \/ ChainUpdate \/ UpgradedSignable

SpecChain == Init /\ [][NextChain]_vars

(***************************************************************************)
(* CURLHandle objects and what they own.  cs.objs gives, for each object,  *)
(* whether it lives and the two pointers it holds: m_handle names an easy  *)
(* handle and p_headers a header list, 0 standing for nullptr.             *)
(* cs.cleanups and cs.frees count the calls of curl_easy_cleanup and       *)
(* curl_slist_free_all on each of them, cs.dropped holds the lists whose   *)
(* only pointer a failed append overwrote.  p_headers starts as nullptr    *)
(* (its initializer is in the class declaration).                          *)
(***************************************************************************)
MaxObjects == 3      \* CURLHandle objects, and easy handles, of a run
MaxLists == 2        \* header lists allocated in a run
MaxResets == 2       \* calls of reset_headers in a run

InitCurl ==
    /\ p_root = NoRoot
    /\ call = NoCall
    /\ recovered = FALSE
    /\ cs = [objs |-> [o \in 1..MaxObjects |-> [st |-> "none", m_handle |-> 0, p_headers |-> 0]],
             cleanups |-> [h \in 1..MaxObjects |-> 0],
             frees |-> [l \in 1..MaxLists |-> 0],
             handles |-> 0, lists |-> 0, resets |-> 0, dropped |-> {}]

\* CURLHandle::CURLHandle(): curl_easy_init gives a new handle, or nullptr and the
\* constructor throws, so that the object never lives.
Construct ==
    \E o \in 1..MaxObjects, init_ok \in BOOLEAN :
        /\ cs.objs[o].st = "none"
        /\ cs.handles < MaxObjects
        /\ cs' = IF init_ok
                 THEN [cs EXCEPT !.handles = @ + 1,
                                 !.objs[o] = [st |-> "alive", m_handle |-> cs.handles + 1,
                                              p_headers |-> 0]]
                 ELSE [cs EXCEPT !.objs[o].st = "failed"]
        /\ UNCHANGED <<p_root, call, recovered>>

\* CURLHandle::CURLHandle(CURLHandle&& rhs): std::move of a pointer copies it, and
\* rhs keeps its own.
MoveConstruct ==
    \E o, rhs \in 1..MaxObjects :
        /\ cs.objs[o].st = "none"
        /\ cs.objs[rhs].st = "alive"
        /\ cs' = [cs EXCEPT !.objs[o] = [st |-> "alive",
                                        m_handle |-> cs.objs[rhs].m_handle,
                                        p_headers |-> cs.objs[rhs].p_headers]]
        /\ UNCHANGED <<p_root, call, recovered>>

\* CURLHandle& CURLHandle::operator=(CURLHandle&& rhs): the pointers are swapped.
MoveAssign ==
    \E o, rhs \in 1..MaxObjects :
        /\ cs.objs[o].st = "alive"
        /\ cs.objs[rhs].st = "alive"
        /\ cs' = [cs EXCEPT !.objs[o] = cs.objs[rhs], !.objs[rhs] = cs.objs[o]]
        /\ UNCHANGED <<p_root, call, recovered>>

\* CURLHandle& CURLHandle::add_header(header): curl_slist_append returns the list
\* it was given, a new list when given nullptr, or nullptr when it fails; the
\* result overwrites p_headers before the test that throws bad_alloc.
AddHeader ==
    \E o \in 1..MaxObjects, append_ok \in BOOLEAN :
        LET p == cs.objs[o].p_headers
        IN  /\ cs.objs[o].st = "alive"
            /\ (append_ok /\ p = 0) => cs.lists < MaxLists
            /\ cs' = IF ~append_ok
                     THEN [cs EXCEPT !.objs[o].p_headers = 0,
                                     !.dropped = IF p = 0 THEN @ ELSE @ \cup {p}]
                     ELSE IF p = 0
                     THEN [cs EXCEPT !.lists = @ + 1, !.objs[o].p_headers = cs.lists + 1]
                     ELSE cs
            /\ UNCHANGED <<p_root, call, recovered>>

\* CURLHandle& CURLHandle::reset_headers(): curl_slist_free_all of nullptr does nothing.
ResetHeaders ==
    \E o \in 1..MaxObjects :
        LET p == cs.objs[o].p_headers
        IN  /\ cs.objs[o].st = "alive"
            /\ cs.resets < MaxResets
            /\ cs' = [cs EXCEPT !.resets = @ + 1,
                                !.frees = IF p = 0 THEN @ ELSE [@ EXCEPT ![p] = @ + 1],
                                !.objs[o].p_headers = 0]
            /\ UNCHANGED <<p_root, call, recovered>>

\* CURLHandle::~CURLHandle()
Destroy ==
    \E o \in 1..MaxObjects :
        LET h == cs.objs[o].m_handle
            p == cs.objs[o].p_headers
        IN  /\ cs.objs[o].st = "alive"
            /\ cs' = [cs EXCEPT !.cleanups = IF h = 0 THEN @ ELSE [@ EXCEPT ![h] = @ + 1],
                                !.frees = IF p = 0 THEN @ ELSE [@ EXCEPT ![p] = @ + 1],
                                !.objs[o].st = "destroyed"]
            /\ UNCHANGED <<p_root, call, recovered>>

NextCurl ==
    Construct \/ MoveConstruct \/ MoveAssign \/ AddHeader \/ ResetHeaders \/ Destroy

SpecCurl == InitCurl /\ [][NextCurl]_vars

(***************************************************************************)
(* The properties.                                                         *)
(***************************************************************************)
\* The candidate is a document of a dialect the current root can move to, it obeys
\* the schema of its dialect, no keyid is written twice among its signatures, and
\* what the signature checks decode is hex.
ProperCandidate ==
    /\ call.wf /\ call.hexok
    /\ call.cand \in {"v1", "v06"}
    /\ ~call.dup
    /\ ~(call.cur = "v1" /\ call.cand = "v06")

PassesBoth == call.met_new /\ call.met_cur

\* C1 (as stated): every successful update(json) returns a root whose version is
\* the version of the root it was called on plus exactly 1.
C1_VersionPlusOne ==
    [][(call'.op = "update" /\ call'.err = "ok")
          => IsNext(p_root.m_version, p_root'.m_version)]_vars

\* C2: update(json) returns a new root only if the candidate's signatures reach
\* the threshold of the current root's root keyring and of the candidate's own;
\* a proper candidate that reaches only one of the two fails with ThresholdError.
C2_BothKeyrings ==
    call.op = "update" =>
        /\ call.err = "ok" => PassesBoth
        /\ (ProperCandidate /\ call.met_new # call.met_cur) => call.err = "threshold_error"

C2_Witness ==
    /\ call.op = "update" /\ ProperCandidate
    /\ call.met_new /\ ~call.met_cur
    /\ call.rel = "next"
    /\ call.err = "threshold_error"

\* C3 (as stated): a well-formed candidate that passes both signature checks and
\* whose version is at most the current version fails with RollbackError.
C3_RollbackError ==
    (call.op = "update" /\ ProperCandidate /\ PassesBoth /\ call.rel = "notabove")
        => call.err = "rollback_error"

\* C4: a well-formed candidate that passes both signature checks and whose
\* version is greater than the current version + 1 fails with RoleMetadataError.
C4_SkippedVersion ==
    (call.op = "update" /\ ProperCandidate /\ PassesBoth /\ call.rel = "above")
        => call.err = "role_metadata_error"

C4_Witness ==
    /\ call.op = "update" /\ ProperCandidate /\ PassesBoth
    /\ call.rel = "above"
    /\ call.err = "role_metadata_error"

\* What check_signatures was given, as a keyring [val, threshold].
CsKeyring ==
    [val |-> [k \in DOMAIN cs.keyring.keys |-> cs.keyring.keys[k].keyval],
     threshold |-> cs.keyring.threshold]

CsNumValid == NumValid(cs.signatures, cs.signed_data, CsKeyring)

\* C5: check_signatures succeeds when the number of signatures under a keyid of
\* the keyring that verify over signed_data is at least the threshold, and fails
\* with ThresholdError when it is smaller (signatures and key values being hex).
C5_ThresholdExact ==
    (cs.result # NotRun /\ Decodable(cs.signatures, CsKeyring)) =>
        IF CsNumValid >= cs.keyring.threshold
        THEN cs.result.err = "ok"
        ELSE cs.result.err = "threshold_error"

C5_Witness ==
    /\ cs.result.err = "ok"
    /\ cs.keyring.threshold = 2
    /\ CsNumValid = 2

\* C6: an update that fails, by update(json) or update(path), leaves the root as
\* it was, and the next call, when it is a proper candidate of the next version
\* that passes both signature checks, is accepted.
C6_FailedUpdateKeepsRoot ==
    [][/\ (call'.op \in {"update", "update_path"} /\ call'.err # "ok") => p_root' = p_root
       /\ (/\ call.op = "update" /\ call.err # "ok"
           /\ call'.op = "update" /\ call'.rel = "next"
           /\ call'.wf /\ call'.hexok /\ call'.cand \in {"v1", "v06"} /\ ~call'.dup
           /\ ~(call'.cur = "v1" /\ call'.cand = "v06")
           /\ call'.met_new /\ call'.met_cur)
          => (call'.err = "ok" /\ IsNext(p_root.m_version, p_root'.m_version))]_vars

C6_Witness == recovered /\ call.op = "update" /\ call.err = "ok"

\* C7: on a v1 root, update(json) with a v0.6 candidate fails with
\* SpecVersionError, and the root that follows a v1 root is a v1 root.
C7_NoDowngrade ==
    [][/\ (p_root.kind = "v1" /\ call'.op = "update" /\ call'.cand = "v06")
            => call'.err = "spec_version_error"
       /\ p_root.kind = "v1" => p_root'.kind = "v1"]_vars

C7_Witness ==
    /\ call.op = "update" /\ call.cur = "v1" /\ call.cand = "v06"
    /\ call.wf /\ call.met_new /\ call.met_cur /\ call.rel = "next"
    /\ call.err = "spec_version_error"
    /\ p_root.kind = "v1"

\* C8: on a v0.6 root, a v1 candidate of the next version is accepted only if its
\* signatures reach the threshold of the keyring made of the root delegation's
\* pubkeys, each its own keyid, and of the candidate's own root role; a proper
\* candidate that reaches both is accepted and the root returned is a v1 root.
C8_CrossDialectUpgrade ==
    (call.op = "update" /\ call.cur = "v06" /\ call.cand = "v1" /\ call.rel = "next") =>
        /\ call.err = "ok" => (PassesBoth /\ p_root.kind = "v1")
        /\ (ProperCandidate /\ PassesBoth) => (call.err = "ok" /\ p_root.kind = "v1")
        /\ (ProperCandidate /\ ~PassesBoth) => (call.err = "threshold_error" /\ p_root.kind = "v06")

C8_Witness ==
    /\ call.op = "update" /\ call.cur = "v06" /\ call.cand = "v1" /\ call.rel = "next"
    /\ call.err = "ok"
    /\ p_root.kind = "v1"

\* C9 (as stated): RepoTrust with spec version V06 loads the file as a v0.6 root,
\* so that a valid v0.6 root file is bootstrapped, and with V1 as a v1 root; any
\* other spec version fails with SpecVersionError.
C9_RepoTrustDialect ==
    call.op = "repo_trust" =>
        /\ (call.sv = "kV06" /\ call.err = "ok") => p_root.kind = "v06"
        /\ (call.sv = "kV06" /\ call.file_ok /\ call.cand = "v06" /\ call.wf
               /\ call.hexok /\ call.met_new) => call.err = "ok"
        /\ (call.sv = "kV1" /\ call.err = "ok") => p_root.kind = "v1"
        /\ call.sv = "kUnsupported" => call.err = "spec_version_error"

\* C10: adding signatures under keyids that the keyring does not list changes
\* neither the outcome of check_signatures nor the count it reached.
C10_UnknownKeyidSkipped == cs.before # NotRun => cs.result = cs.before

C10_Witness ==
    /\ cs.before.err = "threshold_error"
    /\ cs.result.err = "threshold_error"
    /\ \E s \in cs.signatures :
          /\ s.keyid \notin DOMAIN cs.keyring.keys
          /\ s.sig.hex /\ s.sig.msg = cs.signed_data

\* C11: a keyid written several times among a document's signatures counts at
\* most once: a document that repeats a keyid is accepted, by a constructor or by
\* update, only if the keyids holding a valid signature reach the threshold of
\* the candidate's keyring and, for an update, of the current root's.
C11_KeyidCountsOnce ==
    (call.dup /\ call.err = "ok") =>
        /\ call.met_new
        /\ call.op \in {"update", "update_path"} => call.met_cur

\* pkA signs twice, which would make 2 entries of a threshold of 2, and is refused.
C11_Witness ==
    /\ call.op = "update" /\ call.dup /\ call.hexok
    /\ call.entries_new /\ ~call.met_new
    /\ call.err = "threshold_error"

\* C12: the v1 parser (the v1 constructor, and update for a candidate of the v1
\* dialect) rejects with RoleMetadataError every document in which a role has no
\* keyid, a threshold of 0 or a keyid that `keys` does not declare; and every v1
\* root held has, for every role, at least one keyid, a threshold >= 1 and only
\* declared keyids.
C12_V1RoleKeys ==
    /\ ( /\ call.op = "load_v1" \/ (call.op = "update" /\ call.cand = "v1")
         /\ "role_keys" \in call.defects )
          => call.err = "role_metadata_error"
    /\ (p_root # NoRoot /\ p_root.kind = "v1") =>
          \A r \in DOMAIN p_root.m_roles :
              /\ Len(p_root.m_roles[r].keyids) >= 1
              /\ p_root.m_roles[r].threshold >= 1
              /\ \A i \in 1..Len(p_root.m_roles[r].keyids) :
                    p_root.m_roles[r].keyids[i] \in DOMAIN p_root.m_keys

\* A v1 document with such a role is given to a root and refused, and the root
\* held is a v1 root.
C12_Witness ==
    /\ call.op = "update" /\ call.cand = "v1" /\ "role_keys" \in call.defects
    /\ call.err = "role_metadata_error"
    /\ p_root # NoRoot /\ p_root.kind = "v1"

\* C13: the v1 parser rejects with RoleMetadataError every document whose `roles`
\* lacks one of root, snapshot, targets, timestamp or names a role outside root,
\* targets, snapshot, timestamp, mirrors; a document with the four mandatory
\* roles and mirrors, otherwise valid and signed to its threshold, is accepted by
\* the v1 constructor.
C13_V1RoleNames ==
    /\ ( /\ call.op = "load_v1" \/ (call.op = "update" /\ call.cand = "v1")
         /\ "role_names" \in call.defects )
          => call.err = "role_metadata_error"
    /\ ( /\ call.op = "load_v1" /\ "with_mirrors" \in call.defects
         /\ call.cand = "v1" /\ call.wf /\ call.hexok /\ call.met_new )
          => call.err = "ok"

\* A document without one of the mandatory roles, or with an unknown role, is
\* refused by the constructor.
C13_Witness ==
    /\ call.op = "load_v1" /\ call.cand = "v1" /\ "role_names" \in call.defects
    /\ "role_keys" \notin call.defects
    /\ call.err = "role_metadata_error"

\* C14: the v0.6 parser (the v0.6 constructor, and update of a v0.6 root for a
\* candidate of the v0.6 dialect) rejects with RoleMetadataError every document
\* whose delegations are not exactly root and key_mgr, or in which a delegation
\* has no pubkey or a threshold of 0.
C14_V06Delegations ==
    ( /\ \/ call.op = "load_v06"
         \/ (call.op = "update" /\ call.cur = "v06" /\ call.cand = "v06")
      /\ "delegations" \in call.defects )
        => call.err = "role_metadata_error"

\* Such a document is given to a v0.6 root, which refuses it.
C14_Witness ==
    /\ call.op = "update" /\ call.cur = "v06" /\ call.cand = "v06"
    /\ "delegations" \in call.defects
    /\ call.err = "role_metadata_error"

C16_HexRoundTrip ==
    LET Lower(n) == IF n < 10 THEN 48 + n ELSE 97 + (n - 10)
    IN  /\ (cs.stage = "encoded" /\ cs.hex_maxlen >= 2 * Len(cs.src)) =>
              /\ cs.enc.err = "ok"
              /\ Len(cs.enc.hex) = 2 * Len(cs.src)
              /\ \A i \in 1..Len(cs.src) :
                    /\ cs.enc.hex[2 * i - 1] = Lower(cs.src[i] \div 16)
                    /\ cs.enc.hex[2 * i] = Lower(cs.src[i] % 16)
        /\ (cs.stage = "decoded" /\ cs.kind = "bin" /\ cs.bin_maxlen = Len(cs.src)) =>
              /\ cs.dec.ret = 0
              /\ cs.dec.bin_len = Len(cs.src)
              /\ cs.dec.bin = cs.src

\* Two bytes with different nibbles, one of them above 9, went both ways.
C16_Witness ==
    /\ cs.stage = "decoded" /\ cs.kind = "bin" /\ cs.bin_maxlen = Len(cs.src)
    /\ cs.src = <<175, 9>>
    /\ cs.hex = <<97, 102, 48, 57>>
    /\ cs.dec.bin = cs.src

\* C17: hex2bin without ignore and without hex_end returns 0 exactly when all
\* hex_len characters are hex digits of either case, their number is even and
\* half of it is at most bin_maxlen; otherwise it returns -1 and reports 0 bytes
\* written.
C17_Hex2BinAllOrNothing ==
    LET IsHexDigit(c) == c \in (48..57) \cup (65..70) \cup (97..102)
        Fits == /\ \A i \in 1..Len(cs.hex) : IsHexDigit(cs.hex[i])
                /\ Len(cs.hex) % 2 = 0
                /\ Len(cs.hex) \div 2 <= cs.bin_maxlen
    IN  (cs.stage = "decoded" /\ cs.ignore.null /\ ~cs.want_end) =>
            /\ cs.dec.ret = 0 <=> Fits
            /\ ~Fits => (cs.dec.ret = -1 /\ cs.dec.bin_len = 0)

\* C18: after generate_ed25519_keypair, sign or verify has returned, with success
\* or failure, every EVP_PKEY_CTX, EVP_PKEY and EVP_MD_CTX it acquired has been
\* freed.
C18_ObjectsReleased ==
    cs.op # "none" => cs.result.acquired \subseteq cs.result.freed

\* C19: a document of the dialect being parsed whose `signed` part is valid and
\* whose `signatures` is missing or not of the dialect's shape is rejected with
\* RoleMetadataError, by the constructors and by update.
C19_SignaturesSchema ==
    ( /\ "signatures" \in call.defects
      /\ \/ call.op = "load_v1" /\ call.cand = "v1"
         \/ call.op = "load_v06" /\ call.cand = "v06"
         \/ call.op = "update" /\ call.cand = "v1"
         \/ call.op = "update" /\ call.cur = "v06" /\ call.cand = "v06" )
        => call.err = "role_metadata_error"

\* C20: update(json) checks the signatures against both keyrings before it
\* looks at the version: a proper candidate that misses a threshold fails with
\* ThresholdError whatever its version, and RollbackError, and RoleMetadataError
\* for a proper candidate (the one the version raises), are raised only when both
\* thresholds are reached.
C20_ThresholdsBeforeVersion ==
    call.op = "update" =>
        /\ (ProperCandidate /\ ~PassesBoth) => call.err = "threshold_error"
        /\ call.err = "rollback_error" => PassesBoth
        /\ (ProperCandidate /\ call.err = "role_metadata_error") => PassesBoth

\* A candidate of a version not above the current one misses a threshold and
\* fails with ThresholdError, not RollbackError.
C20_Witness ==
    /\ call.op = "update" /\ ProperCandidate /\ ~PassesBoth
    /\ call.rel = "notabove"
    /\ call.err = "threshold_error"

\* C21: check_signatures goes through the signatures in ascending keyid order and
\* stops when the counter reaches the threshold.  A signature under a keyid of
\* the keyring whose sig, or whose key value, is not hex makes the call fail with
\* the hex-conversion error when fewer than threshold valid signatures sort
\* before it; otherwise the call succeeds with the counter equal to the
\* threshold when enough signatures are valid, and fails with ThresholdError
\* when not.
C21_OrderedEarlyStop ==
    LET ring == cs.keyring.keys
        Known(s) == s.keyid \in DOMAIN ring
        Undecodable(s) == Known(s) /\ (~s.sig.hex \/ ring[s.keyid].keyval \notin PubKeys)
        Valid(s) == /\ Known(s) /\ ~Undecodable(s)
                    /\ s.sig.signer = ring[s.keyid].keyval
                    /\ s.sig.msg = cs.signed_data
        ValidBefore(s) ==
            Cardinality({o \in cs.signatures :
                           Valid(o) /\ KeyIdRank(o.keyid) < KeyIdRank(s.keyid)})
        Aborts == \E s \in cs.signatures :
                      Undecodable(s) /\ ValidBefore(s) < cs.keyring.threshold
        NumValidAll == Cardinality({o \in cs.signatures : Valid(o)})
    IN  cs.result # NotRun =>
            /\ Aborts => cs.result.err = "runtime_error"
            /\ (~Aborts /\ NumValidAll >= cs.keyring.threshold) =>
                  (cs.result.err = "ok" /\ cs.result.valid_sig = cs.keyring.threshold)
            /\ (~Aborts /\ NumValidAll < cs.keyring.threshold) =>
                  cs.result.err = "threshold_error"

\* The signature under pkA is not hex and is met first: the call fails with the
\* hex-conversion error although pkB's valid signature would reach the threshold.
C21_Witness ==
    /\ cs.result # NotRun
    /\ DOMAIN cs.keyring.keys = PubKeys /\ cs.keyring.threshold = 1
    /\ \E a, b \in cs.signatures :
          /\ a.keyid = "pkA" /\ ~a.sig.hex
          /\ b.keyid = "pkB" /\ b.sig.hex /\ b.sig.signer = "pkB"
          /\ b.sig.msg = cs.signed_data
    /\ cs.keyring.keys["pkB"].keyval = "pkB"
    /\ cs.result.err = "runtime_error"

\* C22: in a chain root_1 -> root_2 -> root_3 the candidate for root_3 is checked
\* against the root keys and threshold of root_2 only.  An update called on a root
\* that itself came from an accepted update succeeds only if at least threshold
\* keys of that root signed the candidate, so a key that only the older root had
\* cannot authorize it; and a proper candidate of the next version that passes
\* its own check and has those signatures is accepted, whatever the older root's
\* keys were.
C22_NoHistory ==
    (call.op = "update" /\ cs.at >= 1) =>
        LET by == cs.signers \cap cs.against.keys
        IN  /\ call.err = "ok" => Cardinality(by) >= cs.against.threshold
            /\ (/\ ProperCandidate /\ call.met_new /\ call.rel = "next"
                /\ Cardinality(by) >= cs.against.threshold)
                   => call.err = "ok"

\* root_1 has the root key pkA, root_2 replaced it by pkB; a candidate signed by
\* pkA alone was refused, although it passes its own check.
C22_Witness ==
    /\ call.op = "update" /\ cs.at >= 1
    /\ cs.before.keys = {"pkA"} /\ cs.against.keys = {"pkB"}
    /\ cs.signers = {"pkA"} /\ call.met_new /\ call.rel = "next"
    /\ call.err = "threshold_error"

\* C23: for every loaded v0.6 root, upgraded_signable() returns a v1-shaped object:
\* roles.root and roles.targets are the root and key_mgr delegations' pubkeys as
\* keyids with their thresholds, roles.snapshot and roles.timestamp have no keyids
\* and threshold 1, keys is the union of the root and key_mgr keys, each under its
\* pubkey, _type is "root", version is the root's version and spec_version is
\* "1.0.17".
C23_UpgradedSignable ==
    ("upgraded" \in DOMAIN cs /\ cs.upgraded) =>
        LET u == cs.signable
            d == p_root.m_delegations
            empty == [keyids |-> <<>>, threshold |-> 1]
        IN  /\ DOMAIN u = {"_type", "roles", "keys", "version", "spec_version"}
            /\ DOMAIN u.roles = {"root", "targets", "snapshot", "timestamp"}
            /\ u.roles.root = [keyids |-> d.root.pubkeys, threshold |-> d.root.threshold]
            /\ u.roles.targets = [keyids |-> d.key_mgr.pubkeys,
                                  threshold |-> d.key_mgr.threshold]
            /\ u.roles.snapshot = empty /\ u.roles.timestamp = empty
            /\ DOMAIN u.keys = Range(d.root.pubkeys) \cup Range(d.key_mgr.pubkeys)
            /\ \A k \in DOMAIN u.keys :
                  u.keys[k] = [keytype |-> "ed25519", scheme |-> "ed25519", keyval |-> k]
            /\ u["_type"] = "root"
            /\ u.version = p_root.m_version
            /\ u.spec_version = <<"1", ".", "0", ".", "1", "7">>

\* upgraded_signable was called on a v0.6 root whose root delegation holds pkB
\* alone, while key_mgr holds pkA: the keys of both are listed.
C23_Witness ==
    /\ "upgraded" \in DOMAIN cs /\ cs.upgraded
    /\ p_root.kind = "v06"
    /\ p_root.m_delegations.root.pubkeys = <<"pkB">>
    /\ p_root.m_delegations.key_mgr.pubkeys = <<"pkA">>
    /\ DOMAIN cs.signable.keys = {"pkA", "pkB"}

\* C24: constructing a root of either dialect from a JSON document or from a file
\* succeeds only if the document's own signatures reach the threshold of its own
\* root keyring over its serialised `signed`; a document of the constructor's
\* dialect whose signatures do not reach it is refused with ThresholdError, and
\* after a refusal no root object exists.
C24_BootstrapSelfVerified ==
    call.op \in {"load_v1", "load_v06", "repo_trust"} =>
        /\ call.err = "ok" => (call.met_new /\ p_root # NoRoot)
        /\ call.err # "ok" => p_root = NoRoot
        /\ ( /\ call.wf /\ call.hexok /\ ~call.dup
             /\ \/ call.op = "load_v1" /\ call.cand = "v1"
                \/ call.op = "load_v06" /\ call.cand = "v06"
                \/ /\ call.op = "repo_trust" /\ call.cand = "v1"
                   /\ call.file_ok /\ call.sv \in {"kV1", "kV06"}
             /\ ~call.met_new )
               => call.err = "threshold_error"

\* A well-formed v0.6 document whose signatures do not reach its own threshold was
\* given to the v0.6 constructor: ThresholdError, and no root is held.
C24_Witness ==
    /\ call.op = "load_v06" /\ call.cand = "v06" /\ call.wf /\ call.hexok
    /\ ~call.met_new /\ call.err = "threshold_error" /\ p_root = NoRoot

\* C25 (as stated): the signatures counted toward a threshold never exceed the
\* number of distinct key values of the keyring, and a check succeeds only if
\* at least threshold distinct key values signed: one key listed under two keyids
\* cannot meet a threshold of 2.
C25_DistinctKeyValues ==
    LET ring == cs.keyring.keys
        KeyValues == {ring[k].keyval : k \in DOMAIN ring}
        Signed(v) == \E s \in cs.signatures :
                        /\ s.keyid \in DOMAIN ring /\ ring[s.keyid].keyval = v
                        /\ s.sig.hex /\ s.sig.signer = v /\ s.sig.msg = cs.signed_data
    IN  cs.result # NotRun =>
            /\ cs.result.valid_sig <= Cardinality(KeyValues)
            /\ cs.result.err = "ok" =>
                   Cardinality({v \in KeyValues : Signed(v)}) >= cs.keyring.threshold

\* C26 (as stated): across moves each easy handle and each header list is held
\* by exactly one living CURLHandle, no easy handle is cleaned up twice and no
\* header list is freed twice, and once every object is destroyed each easy
\* handle has been cleaned up, and each header list freed, exactly once.
C26_SingleOwnership ==
    LET Objs == 1..MaxObjects
        Alive == {o \in Objs : cs.objs[o].st = "alive"}
    IN  /\ \A a, b \in Alive :
              a # b => /\ cs.objs[a].m_handle # cs.objs[b].m_handle
                       /\ cs.objs[a].p_headers = 0 \/ cs.objs[a].p_headers # cs.objs[b].p_headers
        /\ \A h \in 1..MaxObjects : cs.cleanups[h] <= 1
        /\ \A l \in 1..MaxLists : cs.frees[l] <= 1
        /\ Alive = {} =>
              /\ \A h \in 1..cs.handles : cs.cleanups[h] = 1
              /\ \A l \in (1..cs.lists) \ cs.dropped : cs.frees[l] = 1

====
